---- MODULE Spec2Model ----
(***************************************************************************)
(* Model of the ENI plugin's namespace configuration engine:               *)
(*   - the static-address setup closure (plugins/eni/engine/nsclosure.go), *)
(*   - the DHCP-leased setup closure (the dhclient based engine).          *)
(* The closures run inside a network namespace whose links, addresses,     *)
(* routes, processes and files are the state the closures act on through   *)
(* the netlink / exec collaborators.                                       *)
(***************************************************************************)
EXTENDS Integers, Sequences, FiniteSets, TLC

VARIABLES
    variant,         \* "none" | "static" | "dhcp": which closure this invocation built
    pc,              \* position of the invocation: "start", a step of run, "ctxFailed", "done"
    args,            \* the strings handed to the constructor
    closureContext,  \* *setupNamespaceClosureContext (static-address variant) or nil
    closure,         \* *setupNamespaceClosure (DHCP-leased variant) or nil
    newErr,          \* error returned by the constructor
    eniLink,         \* run's local eniLink: index of the link LinkByName returned
    err,             \* error returned by run
    calls,           \* collaborator operations issued so far, in order
    links,           \* the namespace's links, in enumeration order
    routes,          \* the namespace's routing table
    procs,           \* running dhclient processes
    files,           \* files of the namespace's host: path -> contents
    teardown,        \* the teardown invocations: device -> closure, position, locals
    setups,          \* the setup invocations that run side by side: device -> the same
    exited,          \* pids of the processes that have terminated
    rerun            \* how often the static closure ran, and what the last run left

\* the state of the invocations that follow the first setup
lifecycle == <<teardown, setups, exited, rerun>>

vars == <<variant, pc, args, closureContext, closure, newErr, eniLink, err,
          calls, links, routes, procs, files, teardown, setups, exited, rerun>>

----------------------------------------------------------------------------
(* Values *)

NilErr == [type |-> "nil", code |-> "", msg |-> ""]

\* a syscall.Errno value
Errno(c) == [type |-> "Errno", code |-> c, msg |-> ""]

\* an error that is not a syscall.Errno (it may still carry an errno text)
OtherErr(c) == [type |-> "other", code |-> c, msg |-> ""]

\* errors.Wrap / errors.Wrapf / errors.New: the result is never a syscall.Errno
Wrap(e, m) == [type |-> "wrapped", code |-> e.code, msg |-> m]

NilAddr == [ip |-> "", mask |-> "", family |-> "nil"]

NilIP == [ip |-> "", family |-> "nil"]

NilContext == [isNil |-> TRUE]

NoArgs == [isNil |-> TRUE]

NoRoute == [dst |-> "", gw |-> NilIP, type |-> "", linkIndex |-> 0, proto |-> ""]

instanceMetadataEndpoint == "169.254.169.254/32"

----------------------------------------------------------------------------
(* Parsing of the caller's strings *)

\* netlink.ParseAddr: "<ip>/<prefix length>" or an error
ParseAddr(s) ==
    CASE s = "10.0.1.5/24"    -> [err |-> NilErr, addr |-> [ip |-> "10.0.1.5", mask |-> "24", family |-> "v4"]]
      [] s = "10.0.1.6/24"    -> [err |-> NilErr, addr |-> [ip |-> "10.0.1.6", mask |-> "24", family |-> "v4"]]
      [] s = "2001:db8::5/64" -> [err |-> NilErr, addr |-> [ip |-> "2001:db8::5", mask |-> "64", family |-> "v6"]]
      [] OTHER                -> [err |-> OtherErr("invalid CIDR address"), addr |-> NilAddr]

\* net.ParseIP: a bare IPv4 or IPv6 address, nil for anything else
ParseIP(s) ==
    CASE s = "10.0.1.1"    -> [ip |-> "10.0.1.1", family |-> "v4"]
      [] s = "2001:db8::1" -> [ip |-> "2001:db8::1", family |-> "v6"]
      [] OTHER             -> NilIP

\* net.ParseCIDR of the fixed metadata endpoint: never fails
ParseCIDR(s) ==
    CASE s = "169.254.169.254/32" -> [err |-> NilErr, net |-> "169.254.169.254/32"]
      [] OTHER                    -> [err |-> OtherErr("invalid CIDR address"), net |-> ""]

----------------------------------------------------------------------------
(* Inputs *)

IfNames == {"eth0", "eth1"}

DeviceNames == {"eth1", "eni1"}

IPv4Addresses == {"10.0.1.5/24", "10.0.1.5", "2001:db8::5/64"}

IPv6Addresses == {"", "2001:db8::5/64", "fe80::/", "10.0.1.6/24"}

IPv4Gateways == {"10.0.1.1", "not-an-ip"}

IPv6Gateways == {"2001:db8::1", "not-an-ip", ""}

MacAddresses == {"0a:00:00:00:00:01"}

----------------------------------------------------------------------------
(* The namespace as the netlink collaborator shows it.  Every primitive     *)
(* returns the set of its possible outcomes: the outcome the namespace      *)
(* state decides, or a failure that leaves the namespace as it was.         *)

\* a kernel-level failure any primitive may answer with
TransientErrs == {Errno("ENOBUFS")}

\* failures a route installation may answer with besides "already exists"
RouteErrs == {Errno("ENETUNREACH"), OtherErr("EEXIST")}

Positions(ls) == 1..Len(ls)

NamedLinks(ls, name) == {i \in Positions(ls) : ls[i].name = name}

First(S) == CHOOSE i \in S : \A j \in S : i <= j

\* netLink.LinkByName
LinkByName(ls, name) ==
    IF NamedLinks(ls, name) = {}
    THEN {[err |-> OtherErr("Link not found"), link |-> 0]}
    ELSE {[err |-> NilErr, link |-> First(NamedLinks(ls, name))]}
         \cup {[err |-> e, link |-> 0] : e \in TransientErrs}

\* netLink.LinkSetName
LinkSetName(ls, l, name) ==
    (IF NamedLinks(ls, name) \ {l} # {}
     THEN {[err |-> Errno("EEXIST"), links |-> ls]}
     ELSE {[err |-> NilErr, links |-> [ls EXCEPT ![l].name = name]]})
    \cup {[err |-> e, links |-> ls] : e \in TransientErrs}

\* netLink.AddrAdd
AddrAdd(ls, l, addr) ==
    (IF addr \in ls[l].addrs
     THEN {[err |-> Errno("EEXIST"), links |-> ls]}
     ELSE {[err |-> NilErr, links |-> [ls EXCEPT ![l].addrs = @ \cup {addr}]]})
    \cup {[err |-> e, links |-> ls] : e \in TransientErrs}

\* netLink.LinkSetUp
LinkSetUp(ls, l) ==
    {[err |-> NilErr, links |-> [ls EXCEPT ![l].up = TRUE]]}
    \cup {[err |-> e, links |-> ls] : e \in TransientErrs}

\* address family of a route: that of its gateway, else of its destination
RouteFamily(r) == IF r.gw # NilIP THEN r.gw.family ELSE "v4"

\* the routing table holds one route per family and destination
SameKey(r1, r2) == RouteFamily(r1) = RouteFamily(r2) /\ r1.dst = r2.dst

\* netLink.RouteAdd
RouteAdd(rs, r) ==
    (IF \E q \in rs : SameKey(q, r)
     THEN {[err |-> Errno("EEXIST"), routes |-> rs]}
     ELSE {[err |-> NilErr, routes |-> rs \cup {r}]})
    \cup {[err |-> e, routes |-> rs] : e \in RouteErrs}

\* the netlink.Route values the closure builds; an unset Dst is the default route
BlackholeRoute(dst) ==
    [dst |-> dst, gw |-> NilIP, type |-> "blackhole", linkIndex |-> 0, proto |-> "static"]

GatewayRoute(gw, idx) ==
    [dst |-> "default", gw |-> gw, type |-> "unicast", linkIndex |-> idx, proto |-> "static"]

\* a default route the kernel installs itself from a router advertisement
RARoute(idx) ==
    [dst |-> "default", gw |-> [ip |-> "fe80::1", family |-> "v6"],
     type |-> "unicast", linkIndex |-> idx, proto |-> "ra"]

\* routes an earlier configuration of the namespace may have left behind
LeftoverRoutes ==
    {BlackholeRoute(instanceMetadataEndpoint),
     GatewayRoute([ip |-> "10.0.1.254", family |-> "v4"], 0)}

\* the namespace before setup: the loopback device and the ENI device, which
\* was moved into the namespace without addresses and down
InitLinks(eniName) ==
    << [index |-> 1, name |-> "lo",    mac |-> "",                  up |-> TRUE,  addrs |-> {}],
       [index |-> 2, name |-> eniName, mac |-> "0a:00:00:00:00:01", up |-> FALSE, addrs |-> {}] >>

\* one collaborator operation, as a test double would record it
Call(op, link, name, addr, route, e) ==
    [op |-> op, link |-> link, name |-> name, addr |-> addr, route |-> route,
     argv |-> <<>>, err |-> e]

----------------------------------------------------------------------------
(* Static-address variant: construction *)

\* newSetupNamespaceClosureContext without the nil check of the parsed IPv6 gateway
newSetupNamespaceClosureContext_UncheckedGateway6(ifName, deviceName, macAddress, ipv4Address, ipv6Address, ipv4Gateway, ipv6Gateway, blockIMDS) ==
    LET nlIPV4Addr == ParseAddr(ipv4Address)
        ipv4GatewayIP == ParseIP(ipv4Gateway)
        nlIPV6Addr == ParseAddr(ipv6Address)
        ipv6GatewayIP == ParseIP(ipv6Gateway)
        nsClosure == [ifName |-> ifName, deviceName |-> deviceName,
                      macAddress |-> macAddress,
                      ipv4Addr |-> nlIPV4Addr.addr, ipv6Addr |-> NilAddr,
                      ipv4Gateway |-> ipv4GatewayIP, ipv6Gateway |-> NilIP,
                      blockIMDS |-> blockIMDS]
    IN  IF nlIPV4Addr.err # NilErr
        THEN [ctx |-> NilContext,
              err |-> Wrap(nlIPV4Addr.err, "unable to parse ipv4 address for the interface")]
        ELSE IF ipv4GatewayIP = NilIP
        THEN [ctx |-> NilContext,
              err |-> Wrap(NilErr, "unable to parse address of the ipv4 gateway")]
        ELSE IF ipv6Address # ""
        THEN IF nlIPV6Addr.err # NilErr
             THEN [ctx |-> NilContext,
                   err |-> Wrap(nlIPV6Addr.err, "unable to parse ipv6 address for the interface")]
             ELSE [ctx |-> [nsClosure EXCEPT !.ipv6Addr = nlIPV6Addr.addr,
                                             !.ipv6Gateway = ipv6GatewayIP],
                   err |-> NilErr]
        ELSE [ctx |-> nsClosure, err |-> NilErr]

\* newSetupNamespaceClosureContext
newSetupNamespaceClosureContext(ifName, deviceName, macAddress, ipv4Address, ipv6Address, ipv4Gateway, ipv6Gateway, blockIMDS) ==
    LET nlIPV4Addr == ParseAddr(ipv4Address)
        ipv4GatewayIP == ParseIP(ipv4Gateway)
        nlIPV6Addr == ParseAddr(ipv6Address)
        ipv6GatewayIP == ParseIP(ipv6Gateway)
        nsClosure == [ifName |-> ifName, deviceName |-> deviceName,
                      macAddress |-> macAddress,
                      ipv4Addr |-> nlIPV4Addr.addr, ipv6Addr |-> NilAddr,
                      ipv4Gateway |-> ipv4GatewayIP, ipv6Gateway |-> NilIP,
                      blockIMDS |-> blockIMDS]
    IN  IF nlIPV4Addr.err # NilErr
        THEN [ctx |-> NilContext,
              err |-> Wrap(nlIPV4Addr.err, "unable to parse ipv4 address for the interface")]
        ELSE IF ipv4GatewayIP = NilIP
        THEN [ctx |-> NilContext,
              err |-> Wrap(NilErr, "unable to parse address of the ipv4 gateway")]
        ELSE IF ipv6Address # ""
        THEN IF nlIPV6Addr.err # NilErr
             THEN [ctx |-> NilContext,
                   err |-> Wrap(nlIPV6Addr.err, "unable to parse ipv6 address for the interface")]
             ELSE IF ipv6GatewayIP = NilIP
             THEN [ctx |-> NilContext,
                   err |-> Wrap(NilErr, "unable to parse address of the ipv6 gateway")]
             ELSE [ctx |-> [nsClosure EXCEPT !.ipv6Addr = nlIPV6Addr.addr,
                                             !.ipv6Gateway = ipv6GatewayIP],
                   err |-> NilErr]
        ELSE [ctx |-> nsClosure, err |-> NilErr]

\* the invocation builds a static-address setup context from the caller's strings
NewStaticContext ==
    /\ pc = "start"
    /\ \E ifName \in IfNames, deviceName \in DeviceNames, mac \in MacAddresses,
          ipv4Address \in IPv4Addresses, ipv6Address \in IPv6Addresses,
          ipv4Gateway \in IPv4Gateways, ipv6Gateway \in IPv6Gateways,
          blockIMDS \in BOOLEAN :
         LET r == newSetupNamespaceClosureContext(ifName, deviceName, mac, ipv4Address,
                      ipv6Address, ipv4Gateway, ipv6Gateway, blockIMDS)
         IN  /\ args' = [ifName |-> ifName, deviceName |-> deviceName, macAddress |-> mac,
                         ipv4Address |-> ipv4Address, ipv6Address |-> ipv6Address,
                         ipv4Gateway |-> ipv4Gateway, ipv6Gateway |-> ipv6Gateway,
                         blockIMDS |-> blockIMDS]
             /\ closureContext' = r.ctx
             /\ newErr' = r.err
             /\ pc' = IF r.err # NilErr THEN "ctxFailed" ELSE "LinkByName"
    /\ variant' = "static"
    /\ UNCHANGED <<lifecycle, closure, eniLink, err, calls, links, routes, procs, files>>

----------------------------------------------------------------------------
(* Static-address variant: run *)

\* isRouteExistsError
isRouteExistsError(e) == e.type = "Errno" /\ e.code = "EEXIST"

\* run with the error of LinkSetUp left unchecked
Returns_UncheckedLinkSetUp(step, e) ==
    IF step = "Route6"
    THEN e # NilErr /\ ~isRouteExistsError(e)
    ELSE IF step = "LinkSetUp" THEN FALSE ELSE e # NilErr

\* run with the route-exists tolerance applied to every route installation
Returns_ToleratesEveryRoute(step, e) ==
    IF step \in {"RouteBlackhole", "Route4", "Route6"}
    THEN e # NilErr /\ ~isRouteExistsError(e)
    ELSE e # NilErr

\* run's error checks: does error e of this step make run return?
Returns(step, e) ==
    IF step = "Route6"
    THEN e # NilErr /\ ~isRouteExistsError(e)
    ELSE e # NilErr

\* run bringing the link up before the addresses are added
NextStep_UpBeforeAddresses(step, c) ==
    CASE step = "LinkByName"     -> "LinkSetName"
      [] step = "LinkSetName"    -> "LinkSetUp"
      [] step = "LinkSetUp"      -> "AddrAdd4"
      [] step = "AddrAdd4"       -> IF c.ipv6Addr # NilAddr THEN "AddrAdd6"
                                    ELSE IF c.blockIMDS THEN "RouteBlackhole" ELSE "Route4"
      [] step = "AddrAdd6"       -> IF c.blockIMDS THEN "RouteBlackhole" ELSE "Route4"
      [] step = "RouteBlackhole" -> "Route4"
      [] step = "Route4"         -> IF c.ipv6Addr # NilAddr THEN "Route6" ELSE "done"
      [] step = "Route6"         -> "done"

\* run without the blackhole route
NextStep_NoBlackhole(step, c) ==
    CASE step = "LinkByName"     -> "LinkSetName"
      [] step = "LinkSetName"    -> "AddrAdd4"
      [] step = "AddrAdd4"       -> IF c.ipv6Addr # NilAddr THEN "AddrAdd6" ELSE "LinkSetUp"
      [] step = "AddrAdd6"       -> "LinkSetUp"
      [] step = "LinkSetUp"      -> "Route4"
      [] step = "RouteBlackhole" -> "Route4"
      [] step = "Route4"         -> IF c.ipv6Addr # NilAddr THEN "Route6" ELSE "done"
      [] step = "Route6"         -> "done"

\* run without bringing the link up
NextStep_NoLinkSetUp(step, c) ==
    CASE step = "LinkByName"     -> "LinkSetName"
      [] step = "LinkSetName"    -> "AddrAdd4"
      [] step = "AddrAdd4"       -> IF c.ipv6Addr # NilAddr THEN "AddrAdd6"
                                    ELSE IF c.blockIMDS THEN "RouteBlackhole" ELSE "Route4"
      [] step = "AddrAdd6"       -> IF c.blockIMDS THEN "RouteBlackhole" ELSE "Route4"
      [] step = "LinkSetUp"      -> IF c.blockIMDS THEN "RouteBlackhole" ELSE "Route4"
      [] step = "RouteBlackhole" -> "Route4"
      [] step = "Route4"         -> IF c.ipv6Addr # NilAddr THEN "Route6" ELSE "done"
      [] step = "Route6"         -> "done"

\* run without the IPv6 gateway route
NextStep_NoRoute6(step, c) ==
    CASE step = "LinkByName"     -> "LinkSetName"
      [] step = "LinkSetName"    -> "AddrAdd4"
      [] step = "AddrAdd4"       -> IF c.ipv6Addr # NilAddr THEN "AddrAdd6" ELSE "LinkSetUp"
      [] step = "AddrAdd6"       -> "LinkSetUp"
      [] step = "LinkSetUp"      -> IF c.blockIMDS THEN "RouteBlackhole" ELSE "Route4"
      [] step = "RouteBlackhole" -> "Route4"
      [] step = "Route4"         -> "done"
      [] step = "Route6"         -> "done"

\* run's control flow: the step that follows a step that did not return
NextStep(step, c) ==
    CASE step = "LinkByName"     -> "LinkSetName"
      [] step = "LinkSetName"    -> "AddrAdd4"
      [] step = "AddrAdd4"       -> IF c.ipv6Addr # NilAddr THEN "AddrAdd6" ELSE "LinkSetUp"
      [] step = "AddrAdd6"       -> "LinkSetUp"
      [] step = "LinkSetUp"      -> IF c.blockIMDS THEN "RouteBlackhole" ELSE "Route4"
      [] step = "RouteBlackhole" -> "Route4"
      [] step = "Route4"         -> IF c.ipv6Addr # NilAddr THEN "Route6" ELSE "done"
      [] step = "Route6"         -> "done"

\* leave the step: return the wrapped error, or go on to the next step
Leave(step, e, msg) ==
    IF Returns(step, e)
    THEN /\ pc' = "done"
         /\ err' = Wrap(e, msg)
    ELSE /\ pc' = NextStep(step, closureContext)
         /\ err' = NilErr

\* run looking the device up by the name it is to be given
RunLinkByName_ByIfName ==
    /\ variant = "static" /\ pc = "LinkByName"
    /\ \E r \in LinkByName(links, closureContext.ifName) :
         /\ eniLink' = r.link
         /\ calls' = Append(calls, Call("LinkByName", 0, closureContext.ifName,
                                        NilAddr, NoRoute, r.err))
         /\ Leave("LinkByName", r.err, "unable to get link for device")
    /\ UNCHANGED <<lifecycle, variant, args, closureContext, closure, newErr, links, routes, procs, files>>


RunLinkByName ==
    /\ variant = "static" /\ pc = "LinkByName"
    /\ \E r \in LinkByName(links, closureContext.deviceName) :
         /\ eniLink' = r.link
         /\ calls' = Append(calls, Call("LinkByName", 0, closureContext.deviceName,
                                        NilAddr, NoRoute, r.err))
         /\ Leave("LinkByName", r.err, "unable to get link for device")
    /\ UNCHANGED <<lifecycle, variant, args, closureContext, closure, newErr, links, routes, procs, files>>

RunLinkSetName ==
    /\ variant = "static" /\ pc = "LinkSetName"
    /\ \E r \in LinkSetName(links, eniLink, closureContext.ifName) :
         /\ links' = r.links
         /\ calls' = Append(calls, Call("LinkSetName", eniLink, closureContext.ifName,
                                        NilAddr, NoRoute, r.err))
         /\ Leave("LinkSetName", r.err, "unable to change interface name")
    /\ UNCHANGED <<lifecycle, variant, args, closureContext, closure, newErr, eniLink, routes, procs, files>>

RunAddrAdd4 ==
    /\ variant = "static" /\ pc = "AddrAdd4"
    /\ \E r \in AddrAdd(links, eniLink, closureContext.ipv4Addr) :
         /\ links' = r.links
         /\ calls' = Append(calls, Call("AddrAdd", eniLink, "", closureContext.ipv4Addr,
                                        NoRoute, r.err))
         /\ Leave("AddrAdd4", r.err, "unable to add ipv4 address to the interface")
    /\ UNCHANGED <<lifecycle, variant, args, closureContext, closure, newErr, eniLink, routes, procs, files>>

RunAddrAdd6 ==
    /\ variant = "static" /\ pc = "AddrAdd6"
    /\ \E r \in AddrAdd(links, eniLink, closureContext.ipv6Addr) :
         /\ links' = r.links
         /\ calls' = Append(calls, Call("AddrAdd", eniLink, "", closureContext.ipv6Addr,
                                        NoRoute, r.err))
         /\ Leave("AddrAdd6", r.err, "unable to add ipv6 address to the interface")
    /\ UNCHANGED <<lifecycle, variant, args, closureContext, closure, newErr, eniLink, routes, procs, files>>

RunLinkSetUp ==
    /\ variant = "static" /\ pc = "LinkSetUp"
    /\ \E r \in LinkSetUp(links, eniLink) :
         /\ links' = r.links
         /\ calls' = Append(calls, Call("LinkSetUp", eniLink, "", NilAddr, NoRoute, r.err))
         /\ Leave("LinkSetUp", r.err, "unable to bring up the device")
    /\ UNCHANGED <<lifecycle, variant, args, closureContext, closure, newErr, eniLink, routes, procs, files>>

RunRouteBlackhole ==
    /\ variant = "static" /\ pc = "RouteBlackhole"
    /\ LET imds == ParseCIDR(instanceMetadataEndpoint)
       IN  IF imds.err # NilErr
           THEN /\ pc' = "done"
                /\ err' = Wrap(imds.err, "unable to parse instance metadata endpoint")
                /\ UNCHANGED <<routes, calls>>
           ELSE \E r \in RouteAdd(routes, BlackholeRoute(imds.net)) :
                  /\ routes' = r.routes
                  /\ calls' = Append(calls, Call("RouteAdd", 0, "", NilAddr,
                                                 BlackholeRoute(imds.net), r.err))
                  /\ Leave("RouteBlackhole", r.err,
                           "unable to add route to block instance metadata")
    /\ UNCHANGED <<lifecycle, variant, args, closureContext, closure, newErr, eniLink, links, procs, files>>

RunRoute4 ==
    /\ variant = "static" /\ pc = "Route4"
    /\ \E r \in RouteAdd(routes, GatewayRoute(closureContext.ipv4Gateway, 0)) :
         /\ routes' = r.routes
         /\ calls' = Append(calls, Call("RouteAdd", 0, "", NilAddr,
                                        GatewayRoute(closureContext.ipv4Gateway, 0), r.err))
         /\ Leave("Route4", r.err, "unable to add the route for the ipv4 gateway")
    /\ UNCHANGED <<lifecycle, variant, args, closureContext, closure, newErr, eniLink, links, procs, files>>

RunRoute6 ==
    /\ variant = "static" /\ pc = "Route6"
    /\ LET route == GatewayRoute(closureContext.ipv6Gateway, links[eniLink].index)
       IN  \E r \in RouteAdd(routes, route) :
             /\ routes' = r.routes
             /\ calls' = Append(calls, Call("RouteAdd", 0, "", NilAddr, route, r.err))
             /\ Leave("Route6", r.err, "unable to add the route for the ipv6 gateway")
    /\ UNCHANGED <<lifecycle, variant, args, closureContext, closure, newErr, eniLink, links, procs, files>>

\* the kernel installs an IPv6 default route from a router advertisement once
\* a device of the namespace is up
RouterAdvertisement ==
    /\ \E l \in Positions(links) :
         /\ links[l].mac # ""
         /\ links[l].up
         /\ ~ \E q \in routes : SameKey(q, RARoute(links[l].index))
         /\ routes' = routes \cup {RARoute(links[l].index)}
    /\ UNCHANGED <<lifecycle, variant, pc, args, closureContext, closure, newErr, eniLink, err,
                   calls, links, procs, files>>

----------------------------------------------------------------------------
(* DHCP-leased variant: the dhclient collaborator *)

dhclientExecutableName == "dhclient"

dhclientV4LeaseFilePathPrefix == "/var/lib/dhclient/ns-dhclient4"

dhclientV4LeasePIDFilePathPrefix == "/var/run/ns-dhclient4"

dhclientV6LeaseFilePathPrefix == "/var/lib/dhclient/ns-dhclient6"

dhclientV6LeasePIDFilePathPrefix == "/var/run/ns-dhclient6"

\* pid of the first process the model starts
FirstPid == 9

Digit(d) ==
    CASE d = 0 -> "0" [] d = 1 -> "1" [] d = 2 -> "2" [] d = 3 -> "3" [] d = 4 -> "4"
      [] d = 5 -> "5" [] d = 6 -> "6" [] d = 7 -> "7" [] d = 8 -> "8" [] d = 9 -> "9"

\* decimal text of a process id, as dhclient writes it to its PID file
RECURSIVE Itoa(_)
Itoa(n) == IF n < 10 THEN Digit(n) ELSE Itoa(n \div 10) \o Digit(n % 10)

\* the value following flag in an argument list, "" when the flag is absent
ArgAfter(argv, flag) ==
    LET at == {i \in 1..(Len(argv) - 1) : argv[i] = flag}
    IN  IF at = {} THEN "" ELSE argv[First(at) + 1]

WriteFile(fs, path, contents) ==
    [p \in DOMAIN fs \cup {path} |-> IF p = path THEN contents ELSE fs[p]]

\* exec.Command(name, args...).CombinedOutput(): dhclient either goes to the
\* background, having written its pid to the -pf file, or exits with a failure;
\* the pid is one no process had before
CombinedOutput(ps, fs, name, argv) ==
    LET pid == FirstPid + Cardinality(ps) + Cardinality(exited)
    IN  {[err |-> NilErr,
          procs |-> ps \cup {[pid |-> pid, name |-> name, argv |-> argv]},
          files |-> WriteFile(fs, ArgAfter(argv, "-pf"), Itoa(pid) \o "\n")],
         [err |-> OtherErr("exit status 1"), procs |-> ps, files |-> fs]}

----------------------------------------------------------------------------
(* DHCP-leased variant: construction *)

\* newSetupNamespaceClosure
newSetupNamespaceClosure(deviceName, ipv4Address, ipv6Address) ==
    LET nlIPV4Addr == ParseAddr(ipv4Address)
        nlIPV6Addr == ParseAddr(ipv6Address)
        nsClosure == [deviceName |-> deviceName,
                      ipv4Addr |-> nlIPV4Addr.addr, ipv6Addr |-> NilAddr]
    IN  IF nlIPV4Addr.err # NilErr
        THEN [ctx |-> NilContext,
              err |-> Wrap(nlIPV4Addr.err, "unable to parse ipv4 address for the interface")]
        ELSE IF ipv6Address # ""
        THEN IF nlIPV6Addr.err # NilErr
             THEN [ctx |-> NilContext,
                   err |-> Wrap(nlIPV6Addr.err, "unable to parse ipv6 address for the interface")]
             ELSE [ctx |-> [nsClosure EXCEPT !.ipv6Addr = nlIPV6Addr.addr], err |-> NilErr]
        ELSE [ctx |-> nsClosure, err |-> NilErr]

\* the invocation builds a DHCP-leased setup closure from the caller's strings
NewDHCPClosure ==
    /\ pc = "start"
    /\ \E deviceName \in DeviceNames, ipv4Address \in IPv4Addresses,
          ipv6Address \in IPv6Addresses :
         LET r == newSetupNamespaceClosure(deviceName, ipv4Address, ipv6Address)
         IN  /\ args' = [deviceName |-> deviceName, ipv4Address |-> ipv4Address,
                         ipv6Address |-> ipv6Address]
             /\ closure' = r.ctx
             /\ newErr' = r.err
             /\ pc' = IF r.err # NilErr THEN "ctxFailed" ELSE "LinkByName"
    /\ variant' = "dhcp"
    /\ UNCHANGED <<lifecycle, closureContext, eniLink, err, calls, links, routes, procs, files>>

----------------------------------------------------------------------------
(* DHCP-leased variant: run *)

\* constructDHClientLeasePIDFilePathIPV4 built on the IPv6 prefix
constructDHClientLeasePIDFilePathIPV4_V6Prefix(deviceName) ==
    dhclientV6LeasePIDFilePathPrefix \o "-" \o deviceName \o ".pid"

\* constructDHClientLeasePIDFilePathIPV4 leaving the device name out
constructDHClientLeasePIDFilePathIPV4_NoDevice(deviceName) ==
    dhclientV4LeasePIDFilePathPrefix \o ".pid"

\* constructDHClientLeasePIDFilePathIPV4
constructDHClientLeasePIDFilePathIPV4(deviceName) ==
    dhclientV4LeasePIDFilePathPrefix \o "-" \o deviceName \o ".pid"

\* constructDHClientV4Args naming a PID file next to the lease file
constructDHClientV4Args_PidByLease(deviceName) ==
    << "-q",
       "-lf", dhclientV4LeaseFilePathPrefix \o "-" \o deviceName \o ".leases",
       "-pf", dhclientV4LeaseFilePathPrefix \o "-" \o deviceName \o ".pid",
       deviceName >>

\* constructDHClientV4Args
constructDHClientV4Args(deviceName) ==
    << "-q",
       "-lf", dhclientV4LeaseFilePathPrefix \o "-" \o deviceName \o ".leases",
       "-pf", constructDHClientLeasePIDFilePathIPV4(deviceName),
       deviceName >>

\* constructDHClientLeasePIDFilePathIPV6
constructDHClientLeasePIDFilePathIPV6(deviceName) ==
    dhclientV6LeasePIDFilePathPrefix \o "-" \o deviceName \o ".pid"

\* constructDHClientV6Args
constructDHClientV6Args(deviceName) ==
    << "-q",
       "-6",
       "-lf", dhclientV6LeaseFilePathPrefix \o "-" \o deviceName \o ".leases",
       "-pf", constructDHClientLeasePIDFilePathIPV6(deviceName),
       deviceName >>

\* run with the error of startDHClientV6 left unchecked
ReturnsDHCP_UncheckedV6Launch(step, e) ==
    IF step = "StartDHClientV6" THEN FALSE ELSE e # NilErr

\* run's error checks of the DHCP-leased variant: every error makes run return
ReturnsDHCP(step, e) == e # NilErr

\* run launching the IPv6 dhclient whether or not an IPv6 address is configured
NextStepDHCP_AlwaysV6(step, c) ==
    CASE step = "LinkByName"      -> "AddrAdd4"
      [] step = "AddrAdd4"        -> IF c.ipv6Addr # NilAddr THEN "AddrAdd6" ELSE "LinkSetUp"
      [] step = "AddrAdd6"        -> "LinkSetUp"
      [] step = "LinkSetUp"       -> "StartDHClientV4"
      [] step = "StartDHClientV4" -> "StartDHClientV6"
      [] step = "StartDHClientV6" -> "done"

\* run's control flow of the DHCP-leased variant
NextStepDHCP(step, c) ==
    CASE step = "LinkByName"      -> "AddrAdd4"
      [] step = "AddrAdd4"        -> IF c.ipv6Addr # NilAddr THEN "AddrAdd6" ELSE "LinkSetUp"
      [] step = "AddrAdd6"        -> "LinkSetUp"
      [] step = "LinkSetUp"       -> "StartDHClientV4"
      [] step = "StartDHClientV4" -> IF c.ipv6Addr # NilAddr THEN "StartDHClientV6" ELSE "done"
      [] step = "StartDHClientV6" -> "done"

LeaveDHCP(step, e, msg) ==
    IF ReturnsDHCP(step, e)
    THEN /\ pc' = "done"
         /\ err' = Wrap(e, msg)
    ELSE /\ pc' = NextStepDHCP(step, closure)
         /\ err' = NilErr

DHCPLinkByName ==
    /\ variant = "dhcp" /\ pc = "LinkByName"
    /\ \E r \in LinkByName(links, closure.deviceName) :
         /\ eniLink' = r.link
         /\ calls' = Append(calls, Call("LinkByName", 0, closure.deviceName,
                                        NilAddr, NoRoute, r.err))
         /\ LeaveDHCP("LinkByName", r.err, "unable to get link for device")
    /\ UNCHANGED <<lifecycle, variant, args, closureContext, closure, newErr, links, routes, procs, files>>

DHCPAddrAdd4 ==
    /\ variant = "dhcp" /\ pc = "AddrAdd4"
    /\ \E r \in AddrAdd(links, eniLink, closure.ipv4Addr) :
         /\ links' = r.links
         /\ calls' = Append(calls, Call("AddrAdd", eniLink, "", closure.ipv4Addr,
                                        NoRoute, r.err))
         /\ LeaveDHCP("AddrAdd4", r.err, "unable to add ipv4 address to the interface")
    /\ UNCHANGED <<lifecycle, variant, args, closureContext, closure, newErr, eniLink, routes, procs, files>>

DHCPAddrAdd6 ==
    /\ variant = "dhcp" /\ pc = "AddrAdd6"
    /\ \E r \in AddrAdd(links, eniLink, closure.ipv6Addr) :
         /\ links' = r.links
         /\ calls' = Append(calls, Call("AddrAdd", eniLink, "", closure.ipv6Addr,
                                        NoRoute, r.err))
         /\ LeaveDHCP("AddrAdd6", r.err, "unable to add ipv6 address to the interface")
    /\ UNCHANGED <<lifecycle, variant, args, closureContext, closure, newErr, eniLink, routes, procs, files>>

DHCPLinkSetUp ==
    /\ variant = "dhcp" /\ pc = "LinkSetUp"
    /\ \E r \in LinkSetUp(links, eniLink) :
         /\ links' = r.links
         /\ calls' = Append(calls, Call("LinkSetUp", eniLink, "", NilAddr, NoRoute, r.err))
         /\ LeaveDHCP("LinkSetUp", r.err, "unable to bring up the device")
    /\ UNCHANGED <<lifecycle, variant, args, closureContext, closure, newErr, eniLink, routes, procs, files>>

\* one launch of dhclient, as a test double would record it
ExecCall(name, argv, e) ==
    [op |-> "Exec", link |-> 0, name |-> name, addr |-> NilAddr, route |-> NoRoute,
     argv |-> argv, err |-> e]

\* startDHClientV4
startDHClientV4 ==
    /\ variant = "dhcp" /\ pc = "StartDHClientV4"
    /\ LET argv == constructDHClientV4Args(closure.deviceName)
       IN  \E r \in CombinedOutput(procs, files, dhclientExecutableName, argv) :
             /\ procs' = r.procs
             /\ files' = r.files
             /\ calls' = Append(calls, ExecCall(dhclientExecutableName, argv, r.err))
             /\ LeaveDHCP("StartDHClientV4", r.err, "unable to start dhclient for ipv4 address")
    /\ UNCHANGED <<lifecycle, variant, args, closureContext, closure, newErr, eniLink, links, routes>>

\* startDHClientV6
startDHClientV6 ==
    /\ variant = "dhcp" /\ pc = "StartDHClientV6"
    /\ LET argv == constructDHClientV6Args(closure.deviceName)
       IN  \E r \in CombinedOutput(procs, files, dhclientExecutableName, argv) :
             /\ procs' = r.procs
             /\ files' = r.files
             /\ calls' = Append(calls, ExecCall(dhclientExecutableName, argv, r.err))
             /\ LeaveDHCP("StartDHClientV6", r.err, "unable to start dhclient for ipv6 address")
    /\ UNCHANGED <<lifecycle, variant, args, closureContext, closure, newErr, eniLink, links, routes>>

----------------------------------------------------------------------------
(* Teardown: what the closures read.  The process table and the files are   *)
(* the host's; a pid, once used, names no later process.                    *)

\* the devices whose invocations are followed
Devices == {1, 2}

\* at most this many teardown invocations follow one setup
MaxTeardowns == 2

\* dhclient processes started besides those of the setups
MaxLaunches == 4

Pids == 0..(FirstPid + MaxLaunches)

NoHardwareAddr == <<>>

\* net.ParseMAC: six bytes from colon or hyphen separated hex pairs, either case
ParseMAC(s) ==
    CASE s = "0a:00:00:00:00:01" -> [err |-> NilErr, hw |-> <<10, 0, 0, 0, 0, 1>>]
      [] s = "0A-00-00-00-00-01" -> [err |-> NilErr, hw |-> <<10, 0, 0, 0, 0, 1>>]
      [] s = "0a:00:00:00:00:02" -> [err |-> NilErr, hw |-> <<10, 0, 0, 0, 0, 2>>]
      [] s = "0a:00:00:00:00:03" -> [err |-> NilErr, hw |-> <<10, 0, 0, 0, 0, 3>>]
      [] OTHER                   -> [err |-> OtherErr("invalid MAC address"), hw |-> NoHardwareAddr]

HexDigit(d) ==
    CASE d < 10 -> Digit(d)
      [] d = 10 -> "a" [] d = 11 -> "b" [] d = 12 -> "c"
      [] d = 13 -> "d" [] d = 14 -> "e" [] d = 15 -> "f"

\* net.HardwareAddr.String(): lower-case hex pairs joined by colons
RECURSIVE HardwareAddrString(_)
HardwareAddrString(hw) ==
    IF hw = <<>> THEN ""
    ELSE LET pair == HexDigit(hw[1] \div 16) \o HexDigit(hw[1] % 16)
         IN  IF Len(hw) = 1 THEN pair ELSE pair \o ":" \o HardwareAddrString(Tail(hw))

\* strings.TrimSpace on the shapes a PID file takes: a token between white space
WhiteSpace == {"", "\n", " ", " \n"}

Tokens == {Itoa(n) : n \in Pids} \cup {"abc"}

TrimSpace(s) ==
    LET cores == {t \in Tokens : \E a \in WhiteSpace, b \in WhiteSpace : s = a \o t \o b}
    IN  IF cores # {} THEN CHOOSE t \in cores : TRUE
        ELSE IF s \in WhiteSpace THEN "" ELSE s

\* strconv.Atoi: the integer a decimal text stands for, or an error
Atoi(s) ==
    LET ns == {n \in Pids : Itoa(n) = s}
    IN  IF ns = {} THEN [err |-> OtherErr("invalid syntax"), n |-> 0]
        ELSE [err |-> NilErr, n |-> CHOOSE n \in ns : TRUE]

\* netLink.LinkList: the links in enumeration order, or a failure
LinkList(ls) ==
    {[err |-> NilErr, links |-> ls]} \cup {[err |-> e, links |-> <<>>] : e \in TransientErrs}

\* ioutil.ReadFile
ReadFile(fs, path) ==
    IF path \in DOMAIN fs
    THEN {[err |-> NilErr, contents |-> fs[path]],
          [err |-> OtherErr("permission denied"), contents |-> ""]}
    ELSE {[err |-> OtherErr("no such file or directory"), contents |-> ""]}

\* os.FindProcess: a handle for the pid, whether or not a process has it
FindProcess(pid) ==
    {[err |-> NilErr, process |-> pid], [err |-> OtherErr("no handle"), process |-> 0]}

\* process.Kill(): ends the process that has the pid; an error when none has it
Kill(ps, gone, process) ==
    LET hit == {p \in ps : p.pid = process}
    IN  IF hit = {}
        THEN {[err |-> OtherErr("os: process already finished"), procs |-> ps, exited |-> gone]}
        ELSE {[err |-> NilErr, procs |-> ps \ hit, exited |-> gone \cup {process}],
              [err |-> OtherErr("operation not permitted"), procs |-> ps, exited |-> gone]}

linkWithMACNotFoundError == OtherErr("engine: device with mac address not found")

----------------------------------------------------------------------------
(* Teardown: the closures *)

\* the strings a teardown is asked to look a device up by
TeardownMacs == {"0a:00:00:00:00:01", "0A-00-00-00-00-01", "0a:00:00:00:00:02", "not-a-mac"}

\* the same for the devices whose invocations run side by side
ParMacs(d) == IF d = 1 THEN {"0A-00-00-00-00-01"} ELSE {"0a:00:00:00:00:02"}

\* the hardware addresses a teardown for device d is asked to look up
MacsAskedFor(d) == IF setups[d].pc = "off" THEN TeardownMacs ELSE ParMacs(d)

\* the teardown invocations that may follow the setup of device d: side by
\* side, one setup precedes one teardown per device
TeardownsOf(d) == IF setups[d].pc = "off" THEN MaxTeardowns ELSE 1

NoTeardown ==
    [pc |-> "idle", kind |-> "none", mac |-> "", closure |-> NilContext, newErr |-> NilErr,
     link |-> 0, deviceName |-> "", family |-> "", pidFilePath |-> "", contents |-> "", pid |-> 0,
     err |-> NilErr, ops |-> <<>>, runs |-> 0, earlier |-> {}, succeeded |-> {}]

NoSetup ==
    [pc |-> "off", deviceName |-> "", closure |-> NilContext, newErr |-> NilErr,
     eniLink |-> 0, err |-> NilErr, launched |-> <<>>, pids |-> {}]

\* the setup invocation for the device has ended, so that its teardown may run
SetupOver(d, kind) ==
    \/ d = 1 /\ setups[d].pc = "off" /\ variant = kind /\ pc \in {"done", "ctxFailed"}
    \/ kind = "dhcp" /\ setups[d].pc \in {"done", "ctxFailed"}

\* one operation of a teardown, as a test double would record it
TeardownCall(op, path, pid, e) == [op |-> op, path |-> path, pid |-> pid, err |-> e]

\* a teardown invocation begins: its locals are fresh, its history is kept
Begin(t, kind, mac, r, first) ==
    [NoTeardown EXCEPT !.pc = IF r.err # NilErr THEN "ctxFailed" ELSE first,
                       !.kind = kind, !.mac = mac, !.closure = r.closure, !.newErr = r.err,
                       !.runs = t.runs + 1, !.earlier = t.succeeded,
                       !.succeeded = t.succeeded]

\* newTeardownNamespaceClosureContext
newTeardownNamespaceClosureContext(mac) ==
    LET parsed == ParseMAC(mac)
    IN  IF parsed.err # NilErr
        THEN [closure |-> NilContext,
              err |-> Wrap(parsed.err, "newTeardownNamespaceClosure engine: malformatted mac address specified")]
        ELSE [closure |-> [hardwareAddr |-> parsed.hw], err |-> NilErr]

\* newTeardownNamespaceClosure
newTeardownNamespaceClosure(mac, stopDHClient6) ==
    LET parsed == ParseMAC(mac)
    IN  IF parsed.err # NilErr
        THEN [closure |-> NilContext,
              err |-> Wrap(parsed.err, "newTeardownNamespaceClosure engine: malformatted mac address specified")]
        ELSE [closure |-> [hardwareAddr |-> parsed.hw, stopDHClient6 |-> stopDHClient6],
              err |-> NilErr]

\* getLinkByHardwareAddress returning the last link that matches
getLinkByHardwareAddress_LastMatch(listed, hardwareAddr) ==
    IF listed.err # NilErr
    THEN [link |-> 0, err |-> listed.err]
    ELSE LET matching == {i \in Positions(listed.links) :
                            listed.links[i].mac = HardwareAddrString(hardwareAddr)}
         IN  IF matching = {}
             THEN [link |-> 0, err |-> linkWithMACNotFoundError]
             ELSE [link |-> CHOOSE i \in matching : \A j \in matching : j <= i, err |-> NilErr]

\* getLinkByHardwareAddress, given what LinkList answered
getLinkByHardwareAddress(listed, hardwareAddr) ==
    IF listed.err # NilErr
    THEN [link |-> 0, err |-> listed.err]
    ELSE LET matching == {i \in Positions(listed.links) :
                            listed.links[i].mac = HardwareAddrString(hardwareAddr)}
         IN  IF matching = {}
             THEN [link |-> 0, err |-> linkWithMACNotFoundError]
             ELSE [link |-> First(matching), err |-> NilErr]

\* stopDHClient going on with what Atoi returned whether or not it failed
ReturnsTeardown_UncheckedAtoi(step, e) ==
    IF step = "Atoi" THEN FALSE ELSE e # NilErr

\* stopDHClient returning nil whether or not Kill failed
ReturnsTeardown_UncheckedKill(step, e) ==
    IF step = "Kill" THEN FALSE ELSE e # NilErr

\* the error checks of the teardown's run and of stopDHClient: every error returns
ReturnsTeardown(step, e) == e # NilErr

\* run never stopping the IPv6 client
NextStepTeardown_NeverV6(step, family, c) ==
    CASE step = "GetLink"     -> [pc |-> "ReadFile", family |-> "v4"]
      [] step = "ReadFile"    -> [pc |-> "Atoi", family |-> family]
      [] step = "Atoi"        -> [pc |-> "FindProcess", family |-> family]
      [] step = "FindProcess" -> [pc |-> "Kill", family |-> family]
      [] step = "Kill"        -> [pc |-> "done", family |-> family]

\* run stopping the IPv6 client whether or not it was asked to
NextStepTeardown_AlwaysV6(step, family, c) ==
    CASE step = "GetLink"     -> [pc |-> "ReadFile", family |-> "v4"]
      [] step = "ReadFile"    -> [pc |-> "Atoi", family |-> family]
      [] step = "Atoi"        -> [pc |-> "FindProcess", family |-> family]
      [] step = "FindProcess" -> [pc |-> "Kill", family |-> family]
      [] step = "Kill"        -> IF family = "v4"
                                 THEN [pc |-> "ReadFile", family |-> "v6"]
                                 ELSE [pc |-> "done", family |-> family]

\* the control flow of the teardown's run and of stopDHClient: the stage that
\* follows a stage that succeeded, and the family whose client it is about
NextStepTeardown(step, family, c) ==
    CASE step = "GetLink"     -> [pc |-> "ReadFile", family |-> "v4"]
      [] step = "ReadFile"    -> [pc |-> "Atoi", family |-> family]
      [] step = "Atoi"        -> [pc |-> "FindProcess", family |-> family]
      [] step = "FindProcess" -> [pc |-> "Kill", family |-> family]
      [] step = "Kill"        -> IF family = "v4" /\ c.stopDHClient6
                                 THEN [pc |-> "ReadFile", family |-> "v6"]
                                 ELSE [pc |-> "done", family |-> family]

\* the PID file stopDHClient is handed for a family
PIDFilePath(family, deviceName) ==
    IF family = "v4"
    THEN constructDHClientLeasePIDFilePathIPV4(deviceName)
    ELSE constructDHClientLeasePIDFilePathIPV6(deviceName)

\* a stage has answered e: the teardown returns the wrapped error, or goes on
\* from record t, which holds what the stage has learnt
LeaveTeardown(d, t, step, e, wrapped) ==
    IF ReturnsTeardown(step, e)
    THEN teardown' = [teardown EXCEPT ![d] = [t EXCEPT !.pc = "done", !.err = wrapped]]
    ELSE LET n == NextStepTeardown(step, t.family, t.closure)
         IN  teardown' = [teardown EXCEPT ![d] =
                 [t EXCEPT !.pc = n.pc,
                           !.family = n.family,
                           !.pidFilePath = PIDFilePath(n.family, t.deviceName),
                           !.succeeded = IF n.pc = "done"
                                         THEN @ \cup {HardwareAddrString(t.closure.hardwareAddr)}
                                         ELSE @]]

Logged(t, op, path, pid, e) == [t EXCEPT !.ops = Append(@, TeardownCall(op, path, pid, e))]

setupvars == <<variant, pc, args, closureContext, closure, newErr, eniLink, err, calls>>

----------------------------------------------------------------------------
(* Teardown of the static-address variant *)

\* the teardown closure of the static-address variant is built
NewStaticTeardown(d) ==
    /\ SetupOver(d, "static")
    /\ teardown[d].pc \in {"idle", "done", "ctxFailed"}
    /\ teardown[d].runs < MaxTeardowns
    /\ \E mac \in TeardownMacs :
         teardown' = [teardown EXCEPT ![d] =
             Begin(@, "static", mac, newTeardownNamespaceClosureContext(mac), "Run")]
    /\ UNCHANGED <<setupvars, links, routes, procs, files, setups, exited, rerun>>

\* a teardown of the static-address variant that looks its device up, as the
\* teardown of the DHCP-leased variant does
teardownNamespaceClosureContext_run_LooksUp(c, ls) ==
    [err |-> getLinkByHardwareAddress([err |-> NilErr, links |-> ls], c.hardwareAddr).err,
     ops |-> << TeardownCall("LinkList", "", 0, NilErr) >>]

\* teardownNamespaceClosureContext.run: what it returns, the operations it issues
teardownNamespaceClosureContext_run(c, ls) == [err |-> NilErr, ops |-> <<>>]

RunStaticTeardown(d) ==
    /\ teardown[d].kind = "static" /\ teardown[d].pc = "Run"
    /\ LET r == teardownNamespaceClosureContext_run(teardown[d].closure, links)
       IN  teardown' = [teardown EXCEPT ![d] =
               [@ EXCEPT !.pc = "done", !.err = r.err, !.ops = r.ops,
                         !.succeeded = IF r.err = NilErr
                                       THEN @ \cup {HardwareAddrString(teardown[d].closure.hardwareAddr)}
                                       ELSE @]]
    /\ UNCHANGED <<setupvars, links, routes, procs, files, setups, exited, rerun>>

----------------------------------------------------------------------------
(* Teardown of the DHCP-leased variant *)

\* the teardown closure of the DHCP-leased variant is built
NewTeardownClosure(d) ==
    /\ SetupOver(d, "dhcp")
    /\ teardown[d].pc \in {"idle", "done", "ctxFailed"}
    /\ teardown[d].runs < TeardownsOf(d)
    /\ \E mac \in MacsAskedFor(d), stopDHClient6 \in BOOLEAN :
         teardown' = [teardown EXCEPT ![d] =
             Begin(@, "dhcp", mac, newTeardownNamespaceClosure(mac, stopDHClient6), "GetLink")]
    /\ UNCHANGED <<setupvars, links, routes, procs, files, setups, exited, rerun>>

\* run: the device is looked up by its hardware address
TeardownGetLink(d) ==
    /\ teardown[d].kind = "dhcp" /\ teardown[d].pc = "GetLink"
    /\ \E listed \in LinkList(links) :
         LET r == getLinkByHardwareAddress(listed, teardown[d].closure.hardwareAddr)
             t == [Logged(teardown[d], "LinkList", "", 0, listed.err) EXCEPT
                       !.link = r.link,
                       !.deviceName = IF r.err = NilErr THEN listed.links[r.link].name ELSE ""]
         IN  LeaveTeardown(d, t, "GetLink", r.err,
                 Wrap(r.err, "teardownNamespaceClosure engine: unable to get device with hardware address"))
    /\ UNCHANGED <<setupvars, links, routes, procs, files, setups, exited, rerun>>

\* stopDHClient: the PID file is read
StopReadFile(d) ==
    /\ teardown[d].kind = "dhcp" /\ teardown[d].pc = "ReadFile"
    /\ \E r \in ReadFile(files, teardown[d].pidFilePath) :
         LET t == [Logged(teardown[d], "ReadFile", teardown[d].pidFilePath, 0, r.err) EXCEPT
                       !.contents = r.contents]
         IN  LeaveTeardown(d, t, "ReadFile", r.err,
                 Wrap(r.err, "teardownNamespaceClosure engine: error reading dhclient pid"))
    /\ UNCHANGED <<setupvars, links, routes, procs, files, setups, exited, rerun>>

\* stopDHClient: the trimmed contents are parsed
StopAtoi(d) ==
    /\ teardown[d].kind = "dhcp" /\ teardown[d].pc = "Atoi"
    /\ LET r == Atoi(TrimSpace(teardown[d].contents))
           t == [teardown[d] EXCEPT !.pid = r.n]
       IN  LeaveTeardown(d, t, "Atoi", r.err,
               Wrap(r.err, "teardownNamespaceClosure engine: error parsing dhclient pid"))
    /\ UNCHANGED <<setupvars, links, routes, procs, files, setups, exited, rerun>>

\* stopDHClient: the handle of the process is obtained
StopFindProcess(d) ==
    /\ teardown[d].kind = "dhcp" /\ teardown[d].pc = "FindProcess"
    /\ \E r \in FindProcess(teardown[d].pid) :
         LET t == Logged(teardown[d], "FindProcess", teardown[d].pidFilePath, teardown[d].pid, r.err)
         IN  LeaveTeardown(d, t, "FindProcess", r.err,
                 Wrap(r.err, "teardownNamespaceClosure engine: error getting process handle"))
    /\ UNCHANGED <<setupvars, links, routes, procs, files, setups, exited, rerun>>

\* stopDHClient: the process is sent the termination
StopKill(d) ==
    /\ teardown[d].kind = "dhcp" /\ teardown[d].pc = "Kill"
    /\ \E r \in Kill(procs, exited, teardown[d].pid) :
         LET t == Logged(teardown[d], "Kill", teardown[d].pidFilePath, teardown[d].pid, r.err)
         IN  /\ procs' = r.procs
             /\ exited' = r.exited
             /\ LeaveTeardown(d, t, "Kill", r.err,
                    Wrap(r.err, "teardownNamespaceClosure engine: error stopping the dhclient process"))
    /\ UNCHANGED <<setupvars, links, routes, files, setups, rerun>>

\* a dhclient ends by itself; its PID file stays
DHClientExits ==
    /\ \E p \in procs :
         /\ procs' = procs \ {p}
         /\ exited' = exited \cup {p.pid}
    /\ UNCHANGED <<setupvars, links, routes, files, teardown, setups, rerun>>

----------------------------------------------------------------------------
(* The static-address closure run again *)

\* at most this many runs of one static-address setup closure
MaxRuns == 2

NoRerun == [runs |-> 1, renamed |-> FALSE, links |-> <<>>, routes |-> {}]

\* the run that ended gave the device its new name
Renamed(cs) == \E i \in 1..Len(cs) : cs[i].op = "LinkSetName" /\ cs[i].err = NilErr

\* the caller runs the closure it holds once more: run's locals are fresh,
\* the closure's fields and the namespace are what the last run left
RerunStatic ==
    /\ variant = "static" /\ pc = "done"
    /\ rerun.runs < MaxRuns
    /\ teardown[1].kind = "none"
    /\ rerun' = [runs |-> rerun.runs + 1, renamed |-> rerun.renamed \/ Renamed(calls),
                 links |-> links, routes |-> routes]
    /\ pc' = "LinkByName"
    /\ eniLink' = 0
    /\ err' = NilErr
    /\ calls' = <<>>
    /\ UNCHANGED <<variant, args, closureContext, closure, newErr, links, routes, procs, files,
                   teardown, setups, exited>>

----------------------------------------------------------------------------
(* The invocation *)

Init ==
    /\ variant = "none"
    /\ pc = "start"
    /\ args = NoArgs
    /\ closureContext = NilContext
    /\ closure = NilContext
    /\ newErr = NilErr
    /\ eniLink = 0
    /\ err = NilErr
    /\ calls = <<>>
    /\ links \in {InitLinks(n) : n \in DeviceNames}
    /\ routes \in SUBSET LeftoverRoutes
    /\ procs = {}
    /\ files = [p \in {} |-> ""]
    /\ teardown = [d \in Devices |-> NoTeardown]
    /\ setups = [d \in Devices |-> NoSetup]
    /\ exited = {}
    /\ rerun = NoRerun

Next ==
    \/ NewStaticContext
    \/ RunLinkByName
    \/ RunLinkSetName
    \/ RunAddrAdd4
    \/ RunAddrAdd6
    \/ RunLinkSetUp
    \/ RunRouteBlackhole
    \/ RunRoute4
    \/ RunRoute6
    \/ NewDHCPClosure
    \/ DHCPLinkByName
    \/ DHCPAddrAdd4
    \/ DHCPAddrAdd6
    \/ DHCPLinkSetUp
    \/ startDHClientV4
    \/ startDHClientV6
    \/ RouterAdvertisement

Spec == Init /\ [][Next]_vars

----------------------------------------------------------------------------
(* The static-address variant from setup to teardown, the closure run again *)

NextStatic ==
    \/ NewStaticContext
    \/ RunLinkByName
    \/ RunLinkSetName
    \/ RunAddrAdd4
    \/ RunAddrAdd6
    \/ RunLinkSetUp
    \/ RunRouteBlackhole
    \/ RunRoute4
    \/ RunRoute6
    \/ RouterAdvertisement
    \/ RerunStatic
    \/ \E d \in Devices : NewStaticTeardown(d)
    \/ \E d \in Devices : RunStaticTeardown(d)

SpecStatic == Init /\ [][NextStatic]_vars

----------------------------------------------------------------------------
(* The DHCP-leased variant from setup to teardown *)

\* the namespace besides the ENI: nothing, a second device, or a VLAN on the
\* ENI, which has the ENI's hardware address
TeardownLinks(eniName) ==
    {InitLinks(eniName),
     Append(InitLinks(eniName),
            [index |-> 3, name |-> "eth2", mac |-> "0a:00:00:00:00:02", up |-> FALSE, addrs |-> {}]),
     Append(InitLinks(eniName),
            [index |-> 3, name |-> "vlan100", mac |-> "0a:00:00:00:00:01", up |-> FALSE, addrs |-> {}])}

\* PID files an earlier life of the host left behind
LeftoverFiles(eniName) ==
    {[p \in {} |-> ""],
     [p \in {constructDHClientLeasePIDFilePathIPV4(eniName)} |-> "abc\n"],
     [p \in {constructDHClientLeasePIDFilePathIPV4(eniName)} |-> " 7 \n"]}

InitTeardown ==
    /\ variant = "none"
    /\ pc = "start"
    /\ args = NoArgs
    /\ closureContext = NilContext
    /\ closure = NilContext
    /\ newErr = NilErr
    /\ eniLink = 0
    /\ err = NilErr
    /\ calls = <<>>
    /\ \E n \in DeviceNames :
         /\ links \in TeardownLinks(n)
         /\ files \in LeftoverFiles(n)
    /\ routes = {}
    /\ procs = {}
    /\ teardown = [d \in Devices |-> NoTeardown]
    /\ setups = [d \in Devices |-> NoSetup]
    /\ exited = {}
    /\ rerun = NoRerun

NextTeardown ==
    \/ NewDHCPClosure
    \/ DHCPLinkByName
    \/ DHCPAddrAdd4
    \/ DHCPAddrAdd6
    \/ DHCPLinkSetUp
    \/ startDHClientV4
    \/ startDHClientV6
    \/ DHClientExits
    \/ \E d \in Devices : NewTeardownClosure(d)
    \/ \E d \in Devices : TeardownGetLink(d)
    \/ \E d \in Devices : StopReadFile(d)
    \/ \E d \in Devices : StopAtoi(d)
    \/ \E d \in Devices : StopFindProcess(d)
    \/ \E d \in Devices : StopKill(d)

SpecTeardown == InitTeardown /\ [][NextTeardown]_vars

----------------------------------------------------------------------------
(* Vocabulary of the properties.  What the caller asked for is read from    *)
(* the constructor's strings (args), what happened from the recorded        *)
(* collaborator operations (calls) and from the namespace.                  *)

\* the strings that are addresses in CIDR form, and the addresses they denote
CidrIPv4(s) ==
    CASE s = "10.0.1.5/24" -> [ip |-> "10.0.1.5", mask |-> "24", family |-> "v4"]
      [] s = "10.0.1.6/24" -> [ip |-> "10.0.1.6", mask |-> "24", family |-> "v4"]
      [] OTHER             -> NilAddr

CidrIPv6(s) ==
    CASE s = "2001:db8::5/64" -> [ip |-> "2001:db8::5", mask |-> "64", family |-> "v6"]
      [] OTHER                -> NilAddr

IsCidr(s) == CidrIPv4(s) # NilAddr \/ CidrIPv6(s) # NilAddr

CidrOf(s) == IF CidrIPv4(s) # NilAddr THEN CidrIPv4(s) ELSE CidrIPv6(s)

\* the strings that are bare IP addresses
IsIPv4(s) == s \in {"10.0.1.1"}

IsIPv6(s) == s \in {"2001:db8::1"}

IsIP(s) == IsIPv4(s) \/ IsIPv6(s)

IPOf(s) == [ip |-> s, family |-> IF IsIPv4(s) THEN "v4" ELSE "v6"]

Static == variant = "static"

DHCP == variant = "dhcp"

Running == pc \notin {"start", "ctxFailed"}

Returned == pc = "done"

IPv6Configured == args.ipv6Address # ""

\* position of the ENI device in the namespace and the device itself
EniPos == First({i \in Positions(links) : links[i].mac # ""})

Eni == links[EniPos]

IsPrefix(s, t) == Len(s) <= Len(t) /\ \A i \in 1..Len(s) : s[i] = t[i]

\* a recorded operation without its outcome
Request(c) == [op |-> c.op, link |-> c.link, name |-> c.name, addr |-> c.addr,
               route |-> c.route, argv |-> c.argv]

Requests == [i \in 1..Len(calls) |-> Request(calls[i])]

Req(op, link, name, addr, route) ==
    [op |-> op, link |-> link, name |-> name, addr |-> addr, route |-> route, argv |-> <<>>]

IMDSBlackhole ==
    [dst |-> "169.254.169.254/32", gw |-> NilIP, type |-> "blackhole",
     linkIndex |-> 0, proto |-> "static"]

DefaultVia(gw, idx) ==
    [dst |-> "default", gw |-> gw, type |-> "unicast", linkIndex |-> idx, proto |-> "static"]

IsBlackholeRequest(c) == c.op = "RouteAdd" /\ c.route = IMDSBlackhole

IsGateway4Request(c) ==
    c.op = "RouteAdd" /\ c.route = DefaultVia(IPOf(args.ipv4Gateway), 0)

IsGateway6Request(c) ==
    c.op = "RouteAdd" /\ IPv6Configured
    /\ c.route = DefaultVia(IPOf(args.ipv6Gateway), Eni.index)

\* the operations of one run of the static-address setup closure, in order
StaticPlan ==
    << Req("LinkByName", 0, args.deviceName, NilAddr, NoRoute),
       Req("LinkSetName", EniPos, args.ifName, NilAddr, NoRoute),
       Req("AddrAdd", EniPos, "", CidrOf(args.ipv4Address), NoRoute) >>
    \o (IF IPv6Configured
        THEN << Req("AddrAdd", EniPos, "", CidrOf(args.ipv6Address), NoRoute) >>
        ELSE << >>)
    \o << Req("LinkSetUp", EniPos, "", NilAddr, NoRoute) >>
    \o (IF args.blockIMDS
        THEN << Req("RouteAdd", 0, "", NilAddr, IMDSBlackhole) >>
        ELSE << >>)
    \o << Req("RouteAdd", 0, "", NilAddr, DefaultVia(IPOf(args.ipv4Gateway), 0)) >>
    \o (IF IPv6Configured
        THEN << Req("RouteAdd", 0, "", NilAddr, DefaultVia(IPOf(args.ipv6Gateway), Eni.index)) >>
        ELSE << >>)

\* the effect of a successful operation is in the namespace
EffectPresent(c) ==
    CASE c.op = "LinkSetName" -> links[c.link].name = c.name
      [] c.op = "AddrAdd"     -> c.addr \in links[c.link].addrs
      [] c.op = "LinkSetUp"   -> links[c.link].up
      [] c.op = "RouteAdd"    -> c.route \in routes
      [] c.op = "Exec"        -> \E p \in procs : p.name = c.name /\ p.argv = c.argv
      [] OTHER                -> TRUE

\* an operation failed, and not in the one tolerated way
Failed(c) ==
    /\ c.err # NilErr
    /\ ~(IsGateway6Request(c) /\ c.err = Errno("EEXIST"))

----------------------------------------------------------------------------
(* C1: in every run of the static-address setup closure the collaborator    *)
(* operations are issued in the order LinkByName(deviceName),               *)
(* LinkSetName(link, ifName), AddrAdd(IPv4), AddrAdd(IPv6) only if an IPv6  *)
(* address is configured, LinkSetUp, RouteAdd(blackhole) only if blockIMDS, *)
(* RouteAdd(IPv4 gateway), RouteAdd(IPv6 gateway) only if an IPv6 address   *)
(* is configured; each is issued at most once: what has been issued is at   *)
(* every moment a prefix of that list, and the whole list when run returns  *)
(* nil.                                                                     *)
C1_StaticOrder ==
    (Static /\ Running) =>
        /\ IsPrefix(Requests, StaticPlan)
        /\ (Returned /\ err = NilErr) => Len(calls) = Len(StaticPlan)

C1_Witness ==
    /\ Static /\ Returned /\ err = NilErr
    /\ IPv6Configured /\ args.blockIMDS
    /\ Len(calls) = 8

(* C2: when a step of the static-address setup closure fails (other than    *)
(* the tolerated IPv6 route-exists case) the closure returns a non-nil      *)
(* error, the failed step is the last one issued, only setup operations     *)
(* were issued, and the effect of every step that succeeded before is still *)
(* in the namespace.                                                        *)
C2_NoRollback ==
    (Static /\ Running) =>
        \A i \in 1..Len(calls) :
            /\ calls[i].op \in {"LinkByName", "LinkSetName", "AddrAdd", "LinkSetUp", "RouteAdd"}
            /\ Failed(calls[i]) => (i = Len(calls) /\ Returned /\ err # NilErr)
            /\ calls[i].err = NilErr => EffectPresent(calls[i])

C2_Witness ==
    /\ Static /\ Returned /\ err # NilErr
    /\ IPv6Configured /\ args.blockIMDS /\ args.ifName # args.deviceName
    /\ Len(calls) = 7
    /\ IsGateway4Request(calls[7])
    /\ Eni.name = args.ifName /\ Eni.up /\ Cardinality(Eni.addrs) = 2
    /\ IMDSBlackhole \in routes

(* C3: an "already exists" (EEXIST) answer to the IPv6 default-route        *)
(* installation is treated as success (run returns nil); the same answer to *)
(* the IPv4 default-route or the blackhole-route installation makes run     *)
(* return an error; any other error of the IPv6 route step makes run return *)
(* an error.                                                                *)
C3_RouteExists ==
    (Static /\ Returned) =>
        \A i \in 1..Len(calls) :
            /\ (IsGateway6Request(calls[i]) /\ calls[i].err = Errno("EEXIST"))
                  => err = NilErr
            /\ (IsGateway6Request(calls[i]) /\ calls[i].err \notin {NilErr, Errno("EEXIST")})
                  => err # NilErr
            /\ ((IsGateway4Request(calls[i]) \/ IsBlackholeRequest(calls[i]))
                /\ calls[i].err = Errno("EEXIST"))
                  => err # NilErr

C3_Witness ==
    /\ Static /\ Returned /\ err = NilErr
    /\ Len(calls) > 0
    /\ IsGateway6Request(calls[Len(calls)])
    /\ calls[Len(calls)].err = Errno("EEXIST")

(* C4: a blackhole route to 169.254.169.254/32 is requested only if         *)
(* blockIMDS is set; when it is set, a gateway route is requested only      *)
(* after the blackhole route was installed (so an error installing it       *)
(* aborts setup before any gateway route), and run never returns nil        *)
(* without the blackhole route installed.                                   *)
C4_BlockIMDS ==
    (Static /\ Running) =>
        /\ \A i \in 1..Len(calls) : IsBlackholeRequest(calls[i]) => args.blockIMDS
        /\ args.blockIMDS =>
            /\ \A j \in 1..Len(calls) :
                 (IsGateway4Request(calls[j]) \/ IsGateway6Request(calls[j])) =>
                     \E i \in 1..(j - 1) :
                         IsBlackholeRequest(calls[i]) /\ calls[i].err = NilErr
            /\ (\E r \in routes : r.dst = "default" /\ r.proto = "static"
                                  /\ r \notin LeftoverRoutes)
                  => IMDSBlackhole \in routes
            /\ (Returned /\ err = NilErr) =>
                 /\ \E i \in 1..Len(calls) :
                      IsBlackholeRequest(calls[i]) /\ calls[i].err = NilErr
                 /\ IMDSBlackhole \in routes

C4_Witness ==
    /\ Static /\ Returned /\ err = NilErr /\ args.blockIMDS
    /\ IMDSBlackhole \in routes
    /\ DefaultVia(IPOf(args.ipv4Gateway), 0) \in routes

(* C5: construction of a static-address setup context fails with an error   *)
(* and yields no context, before any device lookup or kernel mutation,      *)
(* whenever the IPv4 address does not parse, the IPv4 gateway does not      *)
(* parse, or an IPv6 address is supplied and the IPv6 address or the IPv6   *)
(* gateway does not parse; in all other cases construction succeeds.        *)
C5_BadInput ==
    \/ ~IsCidr(args.ipv4Address)
    \/ ~IsIP(args.ipv4Gateway)
    \/ (args.ipv6Address # "" /\ (~IsCidr(args.ipv6Address) \/ ~IsIP(args.ipv6Gateway)))

C5_Construction ==
    (Static /\ pc # "start") =>
        IF C5_BadInput
        THEN /\ newErr # NilErr
             /\ closureContext = NilContext
             /\ pc = "ctxFailed"
             /\ calls = << >>
             /\ links \in {InitLinks(n) : n \in DeviceNames}
             /\ routes \subseteq LeftoverRoutes
        ELSE /\ newErr = NilErr
             /\ closureContext # NilContext
             /\ pc # "ctxFailed"

C5_Witness ==
    /\ Static /\ pc = "ctxFailed"
    /\ IsCidr(args.ipv4Address) /\ IsIP(args.ipv4Gateway)
    /\ IsCidr(args.ipv6Address) /\ args.ipv6Gateway = "not-an-ip"

(* C6: for a valid IPv4 address and IPv4 gateway (the IPv6 address absent,  *)
(* or an IPv6 address with an IPv6 gateway), when every kernel primitive    *)
(* of the run succeeds the static setup returns nil and the device is up    *)
(* with exactly one IPv4 address, the configured one, and the namespace     *)
(* holds exactly one IPv4 default route, the one via the configured         *)
(* gateway, installed by the run.                                           *)
C6_ValidInput ==
    /\ CidrIPv4(args.ipv4Address) # NilAddr
    /\ IsIPv4(args.ipv4Gateway)
    /\ args.ipv6Address # "" =>
         (CidrIPv6(args.ipv6Address) # NilAddr /\ IsIPv6(args.ipv6Gateway))

SettledGateways(f) ==
    {i \in 1..Len(calls) :
        /\ calls[i].op = "RouteAdd"
        /\ calls[i].route.dst = "default"
        /\ calls[i].route.gw.family = f
        /\ \/ calls[i].err = NilErr
           \/ (f = "v6" /\ calls[i].err = Errno("EEXIST"))}

\* default routes of a family in the namespace
HeldGateways(f) == {r \in routes : r.dst = "default" /\ r.gw.family = f}

OneGatewayPerFamily ==
    /\ Cardinality(SettledGateways("v4")) = 1
    /\ Cardinality(HeldGateways("v4")) = 1
    /\ IPv6Configured <=> Cardinality(SettledGateways("v6")) = 1
    /\ IPv6Configured => Cardinality(HeldGateways("v6")) = 1

(* C7 as stated: after any setup closure (static-address or DHCP-leased)    *)
(* returns nil, the namespace holds exactly one gateway route installed for *)
(* IPv4, and exactly one for IPv6 if and only if an IPv6 address was        *)
(* configured.                                                              *)
C7_AnyVariant ==
    (variant # "none" /\ Returned /\ err = NilErr) => OneGatewayPerFamily

(* C7 as amended: after the static-address setup closure returns nil the    *)
(* namespace holds exactly one IPv4 gateway route, installed by the run,    *)
(* and, if and only if an IPv6 address was configured, exactly one IPv6     *)
(* default route was settled by the run (installed, or found already        *)
(* present); the DHCP-leased setup closure requests no route at all.        *)
C7_StaticGateways ==
    /\ (Static /\ Returned /\ err = NilErr) => OneGatewayPerFamily
    /\ DHCP =>
         /\ \A i \in 1..Len(calls) : calls[i].op # "RouteAdd"
         /\ \A r \in routes : r \in LeftoverRoutes \/ r.proto = "ra"

C7_Witness ==
    /\ Static /\ Returned /\ err = NilErr
    /\ IPv6Configured
    /\ DefaultVia(IPOf(args.ipv4Gateway), 0) \in routes
    /\ DefaultVia(IPOf(args.ipv6Gateway), Eni.index) \in routes

Range(f) == {f[i] : i \in DOMAIN f}

(* C8: for a setup context built with an empty IPv6 address (either         *)
(* variant) no IPv6 step is attempted: the only address added is the one of *)
(* the IPv4 address string, no route via an IPv6 gateway or scoped to the   *)
(* link is requested, no dhclient -6 is launched, and the IPv6 gateway      *)
(* string is neither validated (construction succeeds whatever it is) nor   *)
(* used (the context holds no IPv6 gateway).                                *)
C8_NoIPv6Steps ==
    (variant # "none" /\ pc # "start" /\ args.ipv6Address = "") =>
        /\ Cardinality({i \in 1..Len(calls) : calls[i].op = "AddrAdd"}) <= 1
        /\ \A i \in 1..Len(calls) :
             /\ calls[i].op = "AddrAdd" => calls[i].addr = CidrOf(args.ipv4Address)
             /\ calls[i].op = "RouteAdd" =>
                  (calls[i].route.linkIndex = 0 /\ calls[i].route.gw.family # "v6")
             /\ calls[i].op = "Exec" => "-6" \notin Range(calls[i].argv)
        /\ Cardinality({i \in 1..Len(calls) : calls[i].op = "Exec"}) <= 1
        /\ \A p \in procs : "-6" \notin Range(p.argv)
        /\ Static =>
             /\ newErr = NilErr <=> (IsCidr(args.ipv4Address) /\ IsIP(args.ipv4Gateway))
             /\ newErr = NilErr =>
                  (closureContext.ipv6Addr = NilAddr /\ closureContext.ipv6Gateway = NilIP)
        /\ DHCP =>
             /\ newErr = NilErr <=> IsCidr(args.ipv4Address)
             /\ newErr = NilErr => closure.ipv6Addr = NilAddr

C8_Witness ==
    /\ Static /\ Returned /\ err = NilErr
    /\ args.ipv6Address = "" /\ args.ipv6Gateway = "not-an-ip"
    /\ Len(calls) >= 5

\* the documented dhclient arguments
DHClientV4Args(d) ==
    CASE d = "eth1" -> << "-q", "-lf", "/var/lib/dhclient/ns-dhclient4-eth1.leases",
                          "-pf", "/var/run/ns-dhclient4-eth1.pid", "eth1" >>
      [] d = "eni1" -> << "-q", "-lf", "/var/lib/dhclient/ns-dhclient4-eni1.leases",
                          "-pf", "/var/run/ns-dhclient4-eni1.pid", "eni1" >>

DHClientV6Args(d) ==
    CASE d = "eth1" -> << "-q", "-6", "-lf", "/var/lib/dhclient/ns-dhclient6-eth1.leases",
                          "-pf", "/var/run/ns-dhclient6-eth1.pid", "eth1" >>
      [] d = "eni1" -> << "-q", "-6", "-lf", "/var/lib/dhclient/ns-dhclient6-eni1.leases",
                          "-pf", "/var/run/ns-dhclient6-eni1.pid", "eni1" >>

ExecReq(argv) ==
    [op |-> "Exec", link |-> 0, name |-> "dhclient", addr |-> NilAddr,
     route |-> NoRoute, argv |-> argv]

\* the operations of one run of the DHCP-leased setup closure, in order
DHCPPlan ==
    << Req("LinkByName", 0, args.deviceName, NilAddr, NoRoute),
       Req("AddrAdd", EniPos, "", CidrOf(args.ipv4Address), NoRoute) >>
    \o (IF IPv6Configured
        THEN << Req("AddrAdd", EniPos, "", CidrOf(args.ipv6Address), NoRoute) >>
        ELSE << >>)
    \o << Req("LinkSetUp", EniPos, "", NilAddr, NoRoute),
          ExecReq(DHClientV4Args(args.deviceName)) >>
    \o (IF IPv6Configured
        THEN << ExecReq(DHClientV6Args(args.deviceName)) >>
        ELSE << >>)

(* C9: the DHCP-leased setup closure issues, in order, LinkByName(device),  *)
(* AddrAdd(IPv4), AddrAdd(IPv6) if configured, LinkSetUp, dhclient with     *)
(* exactly the documented IPv4 arguments, then, only if IPv6 is configured, *)
(* dhclient with exactly the documented IPv6 arguments; no dhclient is      *)
(* launched, and none runs, before the link has been brought up.            *)
C9_DHCPOrder ==
    (DHCP /\ Running) =>
        /\ IsPrefix(Requests, DHCPPlan)
        /\ (Returned /\ err = NilErr) => Len(calls) = Len(DHCPPlan)
        /\ \A i \in 1..Len(calls) :
             calls[i].op = "Exec" =>
                 \E j \in 1..(i - 1) : calls[j].op = "LinkSetUp" /\ calls[j].err = NilErr
        /\ procs # {} => Eni.up

C9_Witness ==
    /\ DHCP /\ Returned /\ err = NilErr
    /\ IPv6Configured /\ args.deviceName = "eth1"
    /\ Len(calls) = 6
    /\ calls[5].argv[5] = "/var/run/ns-dhclient4-eth1.pid"
    /\ calls[6].argv[6] = "/var/run/ns-dhclient6-eth1.pid"

IsV4Launch(c) == c.op = "Exec" /\ c.argv = DHClientV4Args(args.deviceName)

IsV6Launch(c) == c.op = "Exec" /\ c.argv = DHClientV6Args(args.deviceName)

(* C10: the DHCP-leased setup closure returns nil if and only if every      *)
(* kernel step and every enabled dhclient launch was issued and succeeded;  *)
(* if the IPv4 launch fails the IPv6 dhclient is never launched; if the     *)
(* IPv6 launch fails the closure returns an error while the IPv4 dhclient   *)
(* it started keeps running, no process is signalled and the addresses and  *)
(* the link state stay as set.                                              *)
C10_DHCPResult ==
    (DHCP /\ Returned) =>
        /\ err = NilErr <=>
             (Len(calls) = Len(DHCPPlan) /\ \A i \in 1..Len(calls) : calls[i].err = NilErr)
        /\ \A i \in 1..Len(calls) :
             /\ calls[i].op \in {"LinkByName", "AddrAdd", "LinkSetUp", "Exec"}
             /\ (IsV4Launch(calls[i]) /\ calls[i].err # NilErr) =>
                  ~ \E j \in 1..Len(calls) : IsV6Launch(calls[j])
             /\ (IsV6Launch(calls[i]) /\ calls[i].err # NilErr) =>
                  /\ err # NilErr
                  /\ procs = {[pid |-> FirstPid, name |-> "dhclient",
                               argv |-> DHClientV4Args(args.deviceName)]}
                  /\ Eni.up
                  /\ Eni.addrs = {CidrOf(args.ipv4Address), CidrOf(args.ipv6Address)}

C10_Witness ==
    /\ DHCP /\ Returned /\ err # NilErr
    /\ Len(calls) = 6
    /\ IsV6Launch(calls[6]) /\ calls[6].err # NilErr
    /\ Cardinality(procs) = 1

----------------------------------------------------------------------------
(* The DHCP-leased variant for two devices side by side: each device has    *)
(* its setup invocation and, after it, its teardown invocations; the        *)
(* invocations of the two devices interleave step by step.                  *)

ParDeviceName(d) == IF d = 1 THEN "eth1" ELSE "eni1"

ParIPv6Addresses == {"", "2001:db8::5/64"}

ParLinks ==
    << [index |-> 1, name |-> "lo",   mac |-> "",                  up |-> TRUE,  addrs |-> {}],
       [index |-> 2, name |-> "eth1", mac |-> "0a:00:00:00:00:01", up |-> FALSE, addrs |-> {}],
       [index |-> 3, name |-> "eni1", mac |-> "0a:00:00:00:00:02", up |-> FALSE, addrs |-> {}] >>

\* a step of the setup of device d has answered e: run returns or goes on
\* from record s, which holds what the step has learnt
ParLeave(d, s, step, e, msg) ==
    setups' = [setups EXCEPT ![d] =
        IF ReturnsDHCP(step, e)
        THEN [s EXCEPT !.pc = "done", !.err = Wrap(e, msg)]
        ELSE [s EXCEPT !.pc = NextStepDHCP(step, s.closure)]]

ParNewDHCPClosure(d) ==
    /\ setups[d].pc = "start"
    /\ \E ipv6Address \in ParIPv6Addresses :
         LET r == newSetupNamespaceClosure(setups[d].deviceName, "10.0.1.5/24", ipv6Address)
         IN  setups' = [setups EXCEPT ![d] =
                 [@ EXCEPT !.closure = r.ctx, !.newErr = r.err,
                           !.pc = IF r.err # NilErr THEN "ctxFailed" ELSE "LinkByName"]]
    /\ UNCHANGED <<setupvars, links, routes, procs, files, teardown, exited, rerun>>

ParLinkByName(d) ==
    /\ setups[d].pc = "LinkByName"
    /\ \E r \in LinkByName(links, setups[d].closure.deviceName) :
         ParLeave(d, [setups[d] EXCEPT !.eniLink = r.link], "LinkByName", r.err,
                  "unable to get link for device")
    /\ UNCHANGED <<setupvars, links, routes, procs, files, teardown, exited, rerun>>

ParAddrAdd4(d) ==
    /\ setups[d].pc = "AddrAdd4"
    /\ \E r \in AddrAdd(links, setups[d].eniLink, setups[d].closure.ipv4Addr) :
         /\ links' = r.links
         /\ ParLeave(d, setups[d], "AddrAdd4", r.err, "unable to add ipv4 address to the interface")
    /\ UNCHANGED <<setupvars, routes, procs, files, teardown, exited, rerun>>

ParAddrAdd6(d) ==
    /\ setups[d].pc = "AddrAdd6"
    /\ \E r \in AddrAdd(links, setups[d].eniLink, setups[d].closure.ipv6Addr) :
         /\ links' = r.links
         /\ ParLeave(d, setups[d], "AddrAdd6", r.err, "unable to add ipv6 address to the interface")
    /\ UNCHANGED <<setupvars, routes, procs, files, teardown, exited, rerun>>

ParLinkSetUp(d) ==
    /\ setups[d].pc = "LinkSetUp"
    /\ \E r \in LinkSetUp(links, setups[d].eniLink) :
         /\ links' = r.links
         /\ ParLeave(d, setups[d], "LinkSetUp", r.err, "unable to bring up the device")
    /\ UNCHANGED <<setupvars, routes, procs, files, teardown, exited, rerun>>

\* a launch of dhclient by the setup of device d
ParLaunch(d, step, argv, msg) ==
    \E r \in CombinedOutput(procs, files, dhclientExecutableName, argv) :
        /\ procs' = r.procs
        /\ files' = r.files
        /\ ParLeave(d, [setups[d] EXCEPT !.launched = Append(@, argv),
                                         !.pids = @ \cup {p.pid : p \in r.procs \ procs}],
                    step, r.err, msg)

ParStartDHClientV4(d) ==
    /\ setups[d].pc = "StartDHClientV4"
    /\ ParLaunch(d, "StartDHClientV4", constructDHClientV4Args(setups[d].closure.deviceName),
                 "unable to start dhclient for ipv4 address")
    /\ UNCHANGED <<setupvars, links, routes, teardown, exited, rerun>>

ParStartDHClientV6(d) ==
    /\ setups[d].pc = "StartDHClientV6"
    /\ ParLaunch(d, "StartDHClientV6", constructDHClientV6Args(setups[d].closure.deviceName),
                 "unable to start dhclient for ipv6 address")
    /\ UNCHANGED <<setupvars, links, routes, teardown, exited, rerun>>

InitPar ==
    /\ variant = "none"
    /\ pc = "start"
    /\ args = NoArgs
    /\ closureContext = NilContext
    /\ closure = NilContext
    /\ newErr = NilErr
    /\ eniLink = 0
    /\ err = NilErr
    /\ calls = <<>>
    /\ links = ParLinks
    /\ routes = {}
    /\ procs = {}
    /\ files = [p \in {} |-> ""]
    /\ teardown = [d \in Devices |-> NoTeardown]
    /\ setups = [d \in Devices |-> [NoSetup EXCEPT !.pc = "start", !.deviceName = ParDeviceName(d)]]
    /\ exited = {}
    /\ rerun = NoRerun

NextPar ==
    \/ \E d \in Devices : ParNewDHCPClosure(d)
    \/ \E d \in Devices : ParLinkByName(d)
    \/ \E d \in Devices : ParAddrAdd4(d)
    \/ \E d \in Devices : ParAddrAdd6(d)
    \/ \E d \in Devices : ParLinkSetUp(d)
    \/ \E d \in Devices : ParStartDHClientV4(d)
    \/ \E d \in Devices : ParStartDHClientV6(d)
    \/ \E d \in Devices : NewTeardownClosure(d)
    \/ \E d \in Devices : TeardownGetLink(d)
    \/ \E d \in Devices : StopReadFile(d)
    \/ \E d \in Devices : StopAtoi(d)
    \/ \E d \in Devices : StopFindProcess(d)
    \/ \E d \in Devices : StopKill(d)

SpecPar == InitPar /\ [][NextPar]_vars

----------------------------------------------------------------------------
(* Vocabulary of the teardown properties *)

\* the teardown of the DHCP-leased variant for device d has been built and runs
TeardownRuns(d) == teardown[d].kind = "dhcp" /\ teardown[d].pc \notin {"idle", "ctxFailed"}

TeardownReturned(d) == teardown[d].kind = "dhcp" /\ teardown[d].pc = "done"

\* the documented PID file of a device, per family
PidPath4(name) == "/var/run/ns-dhclient4-" \o name \o ".pid"

PidPath6(name) == "/var/run/ns-dhclient6-" \o name \o ".pid"

\* the operations a teardown that resolved its device to `name` is to issue
StopPlan(path) == << <<"ReadFile", path>>, <<"FindProcess", path>>, <<"Kill", path>> >>

TeardownPlan(name, stop6) ==
    << <<"LinkList", "">> >> \o StopPlan(PidPath4(name))
        \o (IF stop6 THEN StopPlan(PidPath6(name)) ELSE << >>)

\* the plan of the teardown of device d, as far as it is known
PlanOf(d) ==
    IF teardown[d].link = 0
    THEN << <<"LinkList", "">> >>
    ELSE TeardownPlan(links[teardown[d].link].name, teardown[d].closure.stopDHClient6)

Issued(d) == [i \in 1..Len(teardown[d].ops) |-> <<teardown[d].ops[i].op, teardown[d].ops[i].path>>]

\* the teardown of device d signalled a process through the PID file at path
Signalled(d, path) ==
    \E i \in 1..Len(teardown[d].ops) :
        teardown[d].ops[i].op = "Kill" /\ teardown[d].ops[i].path = path

\* the teardown of device d has stopped the IPv4 client
Stopped4(d) ==
    \E i \in 1..Len(teardown[d].ops) :
        /\ teardown[d].ops[i].op = "Kill"
        /\ teardown[d].ops[i].path = PidPath4(links[teardown[d].link].name)
        /\ teardown[d].ops[i].err = NilErr

(* C11: the DHCP teardown first resolves the device by hardware address     *)
(* and, if no link matches, returns an error without reading a PID file or  *)
(* signalling a process; it then stops the IPv4 client through the PID file *)
(* named after the resolved device's current name; only after that          *)
(* succeeded, and only if the IPv6-stop flag is set, does it read the IPv6  *)
(* PID file and stop the IPv6 client; it returns nil only if every          *)
(* required stop succeeded, and a failed IPv4 stop means the IPv6 client is *)
(* never signalled.                                                         *)
C11_TeardownOrder ==
    \A d \in Devices :
        TeardownRuns(d) =>
            LET t == teardown[d]
            IN  /\ IsPrefix(Issued(d), PlanOf(d))
                /\ \A i \in 1..(Len(t.ops) - 1) : t.ops[i].err = NilErr
                /\ (TeardownReturned(d) /\ t.link = 0) => (t.err # NilErr /\ Len(t.ops) = 1)
                /\ (TeardownReturned(d) /\ t.err = NilErr) =>
                       /\ Len(t.ops) = Len(PlanOf(d))
                       /\ \A i \in 1..Len(t.ops) : t.ops[i].err = NilErr
                /\ (TeardownReturned(d) /\ t.link # 0 /\ ~ Stopped4(d)) =>
                       /\ t.err # NilErr
                       /\ ~ Signalled(d, PidPath6(links[t.link].name))

C11_Witness ==
    /\ TeardownReturned(1) /\ teardown[1].err = NilErr
    /\ teardown[1].closure.stopDHClient6
    /\ Len(teardown[1].ops) = 7
    /\ teardown[1].ops[2].path = "/var/run/ns-dhclient4-eni1.pid"
    /\ teardown[1].ops[7].op = "Kill"
    /\ teardown[1].ops[7].path = "/var/run/ns-dhclient6-eni1.pid"

\* the text is the decimal form of n between white space
DenotesPid(s, n) == \E a \in WhiteSpace, b \in WhiteSpace : s = a \o Itoa(n) \o b

Numeric(s) == \E n \in Pids : DenotesPid(s, n)

(* C12: stopDHClient reads the PID file, parses its trimmed contents as an  *)
(* integer, obtains the process handle and sends the termination, in that   *)
(* order; a failure at any stage returns an error and no later stage is     *)
(* performed; a missing or unreadable PID file, or contents that are not a  *)
(* number, never lead to a process being signalled; the only process ever   *)
(* signalled is the one whose id is the trimmed integer of the PID file.    *)
C12_StopStages ==
    \A d \in Devices :
        TeardownRuns(d) =>
            LET t == teardown[d]
                last == Len(t.ops)
            IN  /\ \A i \in 1..last :
                     /\ t.ops[i].err # NilErr =>
                            (i = last /\ TeardownReturned(d) /\ t.err # NilErr)
                     /\ t.ops[i].op = "FindProcess" =>
                            /\ i > 1
                            /\ t.ops[i - 1].op = "ReadFile"
                            /\ t.ops[i - 1].path = t.ops[i].path
                            /\ t.ops[i - 1].err = NilErr
                            /\ t.ops[i].path \in DOMAIN files
                            /\ DenotesPid(files[t.ops[i].path], t.ops[i].pid)
                     /\ t.ops[i].op = "Kill" =>
                            /\ i > 2
                            /\ t.ops[i - 1].op = "FindProcess"
                            /\ t.ops[i - 1].path = t.ops[i].path
                            /\ t.ops[i - 1].pid = t.ops[i].pid
                            /\ t.ops[i - 1].err = NilErr
                /\ (TeardownReturned(d) /\ last > 0 /\ t.ops[last].op \in {"ReadFile", "FindProcess"}) =>
                       t.err # NilErr
                /\ \A p \in DOMAIN files : ~ Numeric(files[p]) => ~ Signalled(d, p)
                /\ \A i \in 1..last :
                     (t.ops[i].op = "ReadFile" /\ t.ops[i].path \notin DOMAIN files) =>
                         (t.ops[i].err # NilErr /\ ~ Signalled(d, t.ops[i].path))

C12_Witness ==
    /\ TeardownReturned(1) /\ teardown[1].err # NilErr
    /\ Len(teardown[1].ops) = 2
    /\ teardown[1].ops[2].op = "ReadFile" /\ teardown[1].ops[2].err = NilErr
    /\ files[teardown[1].ops[2].path] = "abc\n"
    /\ teardown[1].err.msg = "teardownNamespaceClosure engine: error parsing dhclient pid"

\* the teardown of device d is about to signal a pid that no process has
StaleKill(d) ==
    /\ teardown[d].kind = "dhcp" /\ teardown[d].pc = "Kill"
    /\ ~ \E p \in procs : p.pid = teardown[d].pid

\* an earlier teardown for the same hardware address returned nil
SucceededEarlier(d) ==
    /\ teardown[d].closure # NilContext
    /\ HardwareAddrString(teardown[d].closure.hardwareAddr) \in teardown[d].earlier

(* C13: when the process a PID file names is already gone, the DHCP         *)
(* teardown does not pass over it: the termination fails and the teardown   *)
(* returns an error; hence a teardown that follows a successful teardown    *)
(* for the same hardware address does not return nil.                       *)
C13_StaleIsError ==
    /\ [](\A d \in Devices :
             (TeardownReturned(d) /\ SucceededEarlier(d)) => teardown[d].err # NilErr)
    /\ [][\A d \in Devices :
             (StaleKill(d) /\ teardown'[d] # teardown[d]) =>
                 /\ teardown'[d].pc = "done"
                 /\ teardown'[d].err # NilErr
                 /\ procs' = procs]_vars

C13_Witness ==
    /\ TeardownReturned(1) /\ SucceededEarlier(1)
    /\ teardown[1].runs = 2
    /\ Len(teardown[1].ops) = 4
    /\ teardown[1].ops[4].op = "Kill" /\ teardown[1].ops[4].err # NilErr
    /\ teardown[1].ops[4].pid \in exited
    /\ teardown[1].err.msg = "teardownNamespaceClosure engine: error stopping the dhclient process"

\* the teardown of the static-address variant for device d takes its step
StaticTeardownStep(d) ==
    /\ teardown[d].kind = "static" /\ teardown[d].pc = "Run"
    /\ teardown'[d].pc = "done"

(* C14: the teardown of the static-address variant returns nil whatever the *)
(* state of the namespace and of the host, and does nothing: it looks up no *)
(* link, changes nothing in the kernel, reads no file, signals no process,  *)
(* and the namespace is as it was.                                          *)
C14_StaticTeardownNoOp ==
    /\ [](\A d \in Devices :
             (teardown[d].kind = "static" /\ teardown[d].pc = "done") =>
                 (teardown[d].err = NilErr /\ teardown[d].ops = << >>))
    /\ [][\A d \in Devices :
             StaticTeardownStep(d) =>
                 /\ links' = links /\ routes' = routes
                 /\ procs' = procs /\ files' = files /\ exited' = exited
                 /\ calls' = calls]_vars

C14_Witness ==
    /\ teardown[1].kind = "static" /\ teardown[1].pc = "done"
    /\ teardown[1].err = NilErr
    /\ teardown[1].mac = "0a:00:00:00:00:02"
    /\ \A i \in Positions(links) : links[i].mac # "0a:00:00:00:00:02"
    /\ Static /\ Returned /\ err # NilErr

\* the text net.HardwareAddr.String() gives for a hardware address as asked for
CanonicalMac(mac) ==
    CASE mac = "0a:00:00:00:00:01" -> "0a:00:00:00:00:01"
      [] mac = "0A-00-00-00-00-01" -> "0a:00:00:00:00:01"
      [] mac = "0a:00:00:00:00:02" -> "0a:00:00:00:00:02"
      [] OTHER                     -> ""

NotFoundText == "engine: device with mac address not found"

\* link enumerations of up to two links, among them links that differ only in
\* their hardware address, and the empty enumeration
EnumeratedLinks ==
    {[index |-> 2, name |-> n, mac |-> m, up |-> FALSE, addrs |-> {}] :
        n \in {"eth1", "eth2"}, m \in {"0a:00:00:00:00:01", "0a:00:00:00:00:02"}}

Enumerations ==
    {<< >>} \cup {<<a>> : a \in EnumeratedLinks}
            \cup {<<a, b>> : a \in EnumeratedLinks, b \in EnumeratedLinks}

\* the first position of ls whose hardware address reads as target, 0 if none
FirstWithMac(ls, target) ==
    IF \A i \in 1..Len(ls) : ls[i].mac # target THEN 0
    ELSE CHOOSE i \in 1..Len(ls) :
             ls[i].mac = target /\ \A j \in 1..(i - 1) : ls[j].mac # target

\* the teardown of device d has had the answer of getLinkByHardwareAddress
LookedUp(d) == TeardownRuns(d) /\ Len(teardown[d].ops) >= 1

(* C15: getLinkByHardwareAddress returns the first link of the enumeration  *)
(* whose hardware-address string equals the target's; when no link matches, *)
(* the empty enumeration included, it returns the not-found sentinel; when  *)
(* LinkList fails it returns LinkList's error, not the sentinel; of two     *)
(* links that differ only in their hardware address it returns the one      *)
(* whose address matches; it never modifies a link.                         *)
(* The function is observed where the teardown applies it, and is applied   *)
(* to every enumeration of up to two links before any invocation begins.    *)
C15_LinkByHardwareAddress ==
    /\ [](\A d \in Devices :
             LookedUp(d) =>
                 LET t == teardown[d]
                     target == CanonicalMac(t.mac)
                 IN  IF t.ops[1].err # NilErr
                     THEN /\ t.link = 0
                          /\ t.err.code = t.ops[1].err.code
                          /\ t.err.code # NotFoundText
                     ELSE /\ t.link = FirstWithMac(links, target)
                          /\ t.link = 0 => t.err.code = NotFoundText
                          /\ t.link # 0 => t.deviceName = links[t.link].name)
    /\ [](variant = "none" =>
          \A ls \in Enumerations : \A mac \in {"0a:00:00:00:00:01", "0A-00-00-00-00-01", "0a:00:00:00:00:02"} :
             /\ getLinkByHardwareAddress([err |-> NilErr, links |-> ls], ParseMAC(mac).hw).link
                    = FirstWithMac(ls, CanonicalMac(mac))
             /\ getLinkByHardwareAddress([err |-> NilErr, links |-> ls], ParseMAC(mac).hw).err.code
                    = IF FirstWithMac(ls, CanonicalMac(mac)) = 0 THEN NotFoundText ELSE ""
             /\ \A e \in TransientErrs :
                    getLinkByHardwareAddress([err |-> e, links |-> << >>], ParseMAC(mac).hw)
                        = [link |-> 0, err |-> e])
    /\ [][\A d \in Devices :
             (teardown[d].pc = "GetLink" /\ teardown'[d].pc # "GetLink") => links' = links]_vars

C15_Witness ==
    /\ LookedUp(1)
    /\ teardown[1].mac = "0A-00-00-00-00-01"
    /\ Len(links) = 3 /\ links[3].mac = "0a:00:00:00:00:01"
    /\ teardown[1].link = 2
    /\ teardown[1].deviceName = "eni1"

\* the other of the two devices
Other(d) == IF d = 1 THEN 2 ELSE 1

\* the lease and PID files the invocations of device d have named
NamedBySetup(d) ==
    {ArgAfter(setups[d].launched[i], "-lf") : i \in 1..Len(setups[d].launched)}
        \cup {ArgAfter(setups[d].launched[i], "-pf") : i \in 1..Len(setups[d].launched)}

ReadByTeardown(d) ==
    {teardown[d].ops[i].path : i \in {j \in 1..Len(teardown[d].ops) : teardown[d].ops[j].op = "ReadFile"}}

SignalledByTeardown(d) ==
    {teardown[d].ops[i].pid : i \in {j \in 1..Len(teardown[d].ops) : teardown[d].ops[j].op = "Kill"}}

\* the documented PID files of a device
PidPathsOf(name) == {PidPath4(name), PidPath6(name)}

(* C16: however the DHCP setup and teardown closures of two devices with    *)
(* distinct names and distinct hardware addresses interleave, the lease and *)
(* PID files named for one device are none of those named for the other,    *)
(* and the teardown of one device never reads a PID file of the other       *)
(* device nor signals a dhclient the other device's setup started.          *)
C16_DevicesApart ==
    \A d \in Devices :
        /\ (NamedBySetup(d) \cup ReadByTeardown(d))
               \cap (NamedBySetup(Other(d)) \cup ReadByTeardown(Other(d))) = {}
        /\ ReadByTeardown(d) \cap PidPathsOf(ParDeviceName(Other(d))) = {}
        /\ ReadByTeardown(d) \subseteq PidPathsOf(ParDeviceName(d))
        /\ SignalledByTeardown(d) \cap setups[Other(d)].pids = {}

C16_Witness ==
    /\ TeardownReturned(1) /\ teardown[1].err = NilErr
    /\ Len(teardown[1].ops) = 7
    /\ setups[2].pc = "done" /\ setups[2].err = NilErr
    /\ Len(setups[2].launched) = 2
    /\ teardown[2].pc = "Kill"
    /\ procs # {}
    /\ \A p \in procs : p.pid \in setups[2].pids
    /\ "/var/run/ns-dhclient4-eth1.pid" \in ReadByTeardown(1)
    /\ "/var/run/ns-dhclient4-eni1.pid" \in ReadByTeardown(2)

\* the family of a dhclient launch, and the PID file it was told to write
FamilyOf(argv) == IF argv[2] = "-6" THEN "v6" ELSE "v4"

PfOf(argv) == IF argv[2] = "-6" THEN argv[6] ELSE argv[5]

\* the launches of the setup, by family
Launches(family) == {i \in 1..Len(calls) : calls[i].op = "Exec" /\ FamilyOf(calls[i].argv) = family}

\* the family a teardown's read is about: the IPv4 client is stopped first
ReadFamily(i) == IF i = 2 THEN "v4" ELSE "v6"

\* the teardown of device d carries the hardware address of the device the
\* setup was for, and that device has the name the setup knew it by
SameDevice(d) ==
    /\ DHCP /\ TeardownRuns(d)
    /\ CanonicalMac(teardown[d].mac) = Eni.mac
    /\ Eni.name = args.deviceName

(* C17: when the device's name is the same at the DHCP setup and at the     *)
(* later DHCP teardown for the device's hardware address, the PID file the  *)
(* teardown reads for a family is the file the setup named with -pf to the  *)
(* dhclient of that family, and is never the file of the other family.      *)
C17_PidPathRoundTrip ==
    \A d \in Devices :
        SameDevice(d) =>
            \A i \in 1..Len(teardown[d].ops) :
                teardown[d].ops[i].op = "ReadFile" =>
                    /\ \A j \in Launches(ReadFamily(i)) :
                           teardown[d].ops[i].path = PfOf(calls[j].argv)
                    /\ \A j \in Launches(IF ReadFamily(i) = "v4" THEN "v6" ELSE "v4") :
                           teardown[d].ops[i].path # PfOf(calls[j].argv)

C17_Witness ==
    /\ SameDevice(1)
    /\ Launches("v4") = {5} /\ Launches("v6") = {6}
    /\ Len(teardown[1].ops) >= 5
    /\ teardown[1].ops[2].op = "ReadFile" /\ teardown[1].ops[2].path = calls[5].argv[5]
    /\ teardown[1].ops[5].op = "ReadFile" /\ teardown[1].ops[5].path = calls[6].argv[6]
    /\ teardown[1].ops[5].path = "/var/run/ns-dhclient6-eth1.pid"

\* the dhclient processes the setup started that still run
StartedAndRunning ==
    {p \in procs : \E j \in 1..Len(calls) :
        calls[j].op = "Exec" /\ calls[j].err = NilErr /\ calls[j].argv = p.argv}

\* the setup returned nil, and a teardown for the device's hardware address,
\* asked to stop the IPv6 client exactly if IPv6 was configured, returned nil
CleanTeardown(d) ==
    /\ DHCP /\ Returned /\ err = NilErr
    /\ TeardownReturned(d) /\ teardown[d].err = NilErr
    /\ CanonicalMac(teardown[d].mac) = Eni.mac
    /\ teardown[d].closure.stopDHClient6 = IPv6Configured

(* C18: if the DHCP setup returned nil, having started the IPv4 client and, *)
(* when IPv6 is configured, the IPv6 client, and a later DHCP teardown for  *)
(* the same hardware address, whose IPv6-stop flag says whether IPv6 was    *)
(* configured, returns nil, then no dhclient that setup started still runs. *)
C18_CleanupComplete ==
    \A d \in Devices : CleanTeardown(d) => StartedAndRunning = {}

C18_Witness ==
    /\ CleanTeardown(1)
    /\ IPv6Configured
    /\ Len(calls) = 6 /\ calls[5].op = "Exec" /\ calls[6].op = "Exec"
    /\ procs = {}
    /\ exited = {FirstPid, FirstPid + 1}

\* the routes the closure, not the kernel's router-advertisement processing, installs
Installed(rs) == {r \in rs : r.proto # "ra"}

\* the closure runs again after a run that renamed the device to another
\* name, and no link bears the old name
RanAgainAfterRename ==
    /\ Static /\ rerun.runs >= 2
    /\ rerun.renamed
    /\ args.ifName # args.deviceName
    /\ NamedLinks(rerun.links, args.deviceName) = {}

(* C19: after a static-address setup closure has renamed the device to a    *)
(* different name, with no other link bearing the old name, running the     *)
(* same closure again fails at its first step, the lookup by the old name:  *)
(* it returns an error, issues no rename, address, link-up or route         *)
(* operation, and leaves the namespace as the first run left it.            *)
C19_RerunFails ==
    RanAgainAfterRename =>
        /\ pc \in {"LinkByName", "done"}
        /\ pc = "LinkByName" => calls = << >>
        /\ pc = "done" =>
               /\ err # NilErr
               /\ Len(calls) = 1
               /\ calls[1].op = "LinkByName"
               /\ calls[1].name = args.deviceName
               /\ calls[1].err # NilErr
        /\ links = rerun.links
        /\ Installed(routes) = Installed(rerun.routes)

C19_Witness ==
    /\ RanAgainAfterRename
    /\ pc = "done" /\ err.msg = "unable to get link for device"
    /\ args.deviceName = "eni1" /\ args.ifName = "eth0"
    /\ Eni.name = "eth0" /\ Eni.up
    /\ Cardinality(Eni.addrs) = 2
    /\ Installed(routes) # {}

====
